---- MODULE Spec2Model ----
(***************************************************************************)
(* PackChicken: the persistent job store (utils/db.py), the booking        *)
(* pipeline of the job worker (workers/job_worker.py) and the label        *)
(* consolidation that ends a run.                                          *)
(*                                                                         *)
(* Python's None is the string "None"; a dict key that is absent reads as  *)
(* None through dict.get, so an absent key and a None value are the same   *)
(* value here.                                                             *)
(***************************************************************************)
EXTENDS Integers, Sequences, FiniteSets, TLC

VARIABLES
    jobs,               \* table jobs: row id = index (INTEGER PRIMARY KEY AUTOINCREMENT)
    now,                \* the last value time.time() returned
    th,                 \* per thread: the frame of process_next_job
    run,                \* per thread: the frame of process_all_pending_jobs
    DOWNLOADED_LABELS,  \* module global of job_worker
    PROCESS_ERRORS,     \* module global of job_worker
    UPDATE_SHOPIFY_FULFILL, \* module global of job_worker
    environ,            \* os.environ of the worker process
    startenv,           \* the environment the process is started with
    files,              \* LABEL_DIR: file name -> pages
    carrier,            \* per job id: booking requests that reached the carrier
    crashes,            \* number of process crashes so far
    bring,              \* the frame of a BringClient.book_consignment call
    http,               \* the frame of a ShopifyClient._request call
    settings,           \* the cache of config.get_settings (lru_cache) of the process
    inbox,              \* the ingress server: its token, background tasks and answers
    csv                 \* the frame of a pick_address call

\* the store, the worker and its surroundings
worker_vars == <<jobs, now, th, run, DOWNLOADED_LABELS, PROCESS_ERRORS,
                 UPDATE_SHOPIFY_FULFILL, environ, startenv, settings, files, carrier, crashes>>

vars == <<worker_vars, bring, http, inbox, csv>>

----------------------------------------------------------------------------
(* Bounds *)

MaxJobs == 2
MaxTime == 1
MaxCrashes == 1

----------------------------------------------------------------------------
(* Values *)

NoneV == "None"

Truthy(v) == v # NoneV /\ v # ""

\* Python's `a or b`
Or(a, b) == IF Truthy(a) THEN a ELSE b

Addr(a, c, z) == [address1 |-> a, city |-> c, zip |-> z]

\* `order.get("shipping_address") or {}` when the key is absent
NoAddr == Addr(NoneV, NoneV, NoneV)
EmptyAddr == Addr("", "", "")
\* an address value that is not a dict (a string in a malformed payload)
NotADict == [notdict |-> "x"]

IsDict(a) == "address1" \in DOMAIN a

\* email and phone stand for `order.get("email") or base.get("email")` and
\* `order.get("phone") or base.get("phone")`
Order(id, ship, bill) ==
    [id |-> id, shipping_address |-> ship, billing_address |-> bill,
     email |-> NoneV, phone |-> NoneV, line_items |-> <<>>]

WithContact(order, email, phone) == [order EXCEPT !.email = email, !.phone = phone]

\* a line item; a value that is absent (None) is <<>>, a number n is <<n>>
LineItem(grams, quantity) == [grams |-> grams, quantity |-> quantity]

WithItems(order, line_items) == [order EXCEPT !.line_items = line_items]

NoOrder == Order(NoneV, NoAddr, NoAddr)

ShipFull == Addr("s1", "sc", "sz")
BillFull == Addr("b1", "bc", "bz")
ShipPartial == Addr("s1", "", "sz")
FetchedFull == Addr("r1", "rc", "rz")

\* the orders that are enqueued in the pipeline specification
Orders ==
    { Order("o1", ShipFull, NoAddr),
      Order("o4", EmptyAddr, NoAddr),
      Order("o6", NotADict, BillFull) }

\* rows_to_job: the job document wraps the order
rows_to_job(o) == [id |-> o.id, order |-> o]

----------------------------------------------------------------------------
(* utils/db.py *)

\* time.time(): the clock never runs backwards; dt is the time that passed
\* since the previous reading
time_time(n, dt) == n + dt

\* add_job that skips an order whose id is already in the table
add_job_unique(js, order_dict, t1, t2) ==
    IF \E i \in 1..Len(js) : js[i].order_id = order_dict.id THEN js
    ELSE Append(js, [order_id   |-> order_dict.id,
                     status     |-> "pending",
                     payload    |-> order_dict,
                     created_at |-> t1,
                     updated_at |-> t2])

\* add_job: INSERT of one pending row; created_at and updated_at come from
\* two calls of time.time()
add_job(js, order_dict, t1, t2) ==
    Append(js, [order_id   |-> order_dict.id,
                status     |-> "pending",
                payload    |-> order_dict,
                created_at |-> t1,
                updated_at |-> t2])

\* a WHERE clause that also selects the failed rows (retry on failure)
PendingIds_retrying(js) == { i \in 1..Len(js) : js[i].status \in {"pending", "failed"} }

PendingIds(js) == { i \in 1..Len(js) : js[i].status = "pending" }

\* get_next_job with ORDER BY id DESC: the newest pending row
get_next_job_newest(js) ==
    IF PendingIds(js) = {} THEN 0
    ELSE CHOOSE i \in PendingIds(js) : \A k \in PendingIds(js) : i >= k

\* SELECT id, payload FROM jobs WHERE status='pending' ORDER BY id LIMIT 1;
\* 0 stands for the None that is returned when there is no such row
get_next_job(js) ==
    IF PendingIds(js) = {} THEN 0
    ELSE CHOOSE i \in PendingIds(js) : \A k \in PendingIds(js) : i <= k

\* get_next_job that marks the row it returns as taken
get_next_job_rows_marking(js) ==
    [ i \in 1..Len(js) |->
        IF i = get_next_job(js) THEN [js[i] EXCEPT !.status = "processing"] ELSE js[i] ]

\* the table after get_next_job: the statement is a SELECT, no row is written
get_next_job_rows(js) == js

\* an UPDATE that sets created_at as well
update_status_touching(js, job_id, status, t) ==
    [ i \in 1..Len(js) |->
        IF i = job_id THEN [js[i] EXCEPT !.status = status, !.updated_at = t, !.created_at = t]
        ELSE js[i] ]

\* UPDATE jobs SET status=?, updated_at=? WHERE id=?
update_status(js, job_id, status, t) ==
    [ i \in 1..Len(js) |->
        IF i = job_id THEN [js[i] EXCEPT !.status = status, !.updated_at = t]
        ELSE js[i] ]

----------------------------------------------------------------------------
(* workers/job_worker.py: pure helpers *)

Contact(email, phone) == [email |-> email, phoneNumber |-> phone]

NoContact == Contact(NoneV, NoneV)

Recipient(a, p, c) == [addressLine |-> a, postalCode |-> p, city |-> c, contact |-> NoContact]

NoRecipient == Recipient("", "", "")

\* build_recipient raises AttributeError when an address is not a dict
build_recipient_raises(order) == ~IsDict(order.shipping_address)

\* build_recipient without the fallback to the billing address
build_recipient_shipping_only(order) ==
    LET base == order.shipping_address
    IN  [Recipient(Or(base.address1, ""), Or(base.zip, ""), Or(base.city, ""))
            EXCEPT !.contact = Contact(order.email, order.phone)]

\* build_recipient: shipping if any of address1/city/zip is set, else billing
build_recipient(order) ==
    LET shipping == order.shipping_address
        billing  == order.billing_address
        base     == IF Truthy(shipping.address1) \/ Truthy(shipping.city) \/ Truthy(shipping.zip)
                    THEN shipping ELSE billing
    IN  [Recipient(Or(base.address1, ""), Or(base.zip, ""), Or(base.city, ""))
            EXCEPT !.contact = Contact(order.email, order.phone)]

\* has_min_recipient that asks for the address line only
has_min_recipient_lenient(recipient) == Truthy(recipient.addressLine)

has_min_recipient(recipient) ==
    Truthy(recipient.addressLine) /\ Truthy(recipient.city) /\ Truthy(recipient.postalCode)

\* sender_from_env / return_to_from_env with the default addresses and the
\* contact settings of the environment
sender_from_env(env) ==
    [Recipient("Testveien 2", "0150", "Oslo")
        EXCEPT !.contact = Contact(env.BRING_SENDER_EMAIL, env.BRING_SENDER_PHONE)]

return_to_from_env(env) ==
    [Recipient("Alf Bjerckes vei 29", "0582", "OSLO")
        EXCEPT !.contact = Contact(env.BRING_RETURN_EMAIL, env.BRING_RETURN_PHONE)]

----------------------------------------------------------------------------
(* Process environment and module globals *)

\* WORKER_POLL_INTERVAL > 0 ("poll") makes the CLI main call process_next_job
\* in a loop; otherwise ("run") the process calls process_all_pending_jobs,
\* as the dashboard does
Env(key, token, test, fulfill, poll) ==
    [BRING_API_KEY |-> key, SHOPIFY_TOKEN |-> token,
     BRING_TEST_INDICATOR |-> test, SHOPIFY_UPDATE_FULFILL |-> fulfill,
     WORKER_POLL_INTERVAL |-> poll,
     BRING_SENDER_EMAIL |-> NoneV, BRING_SENDER_PHONE |-> NoneV,
     BRING_RETURN_EMAIL |-> NoneV, BRING_RETURN_PHONE |-> NoneV,
     BRING_WEIGHT_KG |-> 11000]

\* BRING_WEIGHT_KG, like every weight here, in tenths of a gram (1.1 kg = 11000)
WithWeight(env, weight) == [env EXCEPT !.BRING_WEIGHT_KG = weight]

WithContacts(env, sender_email, sender_phone, return_email, return_phone) ==
    [env EXCEPT !.BRING_SENDER_EMAIL = sender_email, !.BRING_SENDER_PHONE = sender_phone,
                !.BRING_RETURN_EMAIL = return_email, !.BRING_RETURN_PHONE = return_phone]

\* the environments a worker process is started with
StartEnvs ==
    { Env("key", "tok", NoneV, "true", "poll"),
      Env("key", "tok", NoneV, NoneV, "run"),
      Env("key", NoneV, "true", NoneV, "run"),
      Env(NoneV, "tok", NoneV, NoneV, "poll") }

\* UPDATE_SHOPIFY_FULFILL as the module import computes it
ImportFlag(env) == env.SHOPIFY_UPDATE_FULFILL = "true"

\* the cache of get_settings before the first call
NoSettings == [loaded |-> FALSE, BRING_TEST_INDICATOR |-> TRUE]

\* Settings(): BRING_TEST_INDICATOR is a bool field with default True, read
\* from the environment
Settings(env) ==
    [loaded |-> TRUE, BRING_TEST_INDICATOR |-> env.BRING_TEST_INDICATOR # "false"]

\* get_settings under lru_cache: the first call builds the settings from the
\* environment, every later call of the process returns that object
get_settings(cache, env) == IF cache.loaded THEN cache ELSE Settings(env)

\* BringClient(): Settings.require_bring raises ValueError without credentials
BringClient_ok(env) == Truthy(env.BRING_API_KEY)

\* ShopifyClient(): raises ValueError without token or domain
ShopifyClient_ok(env) == Truthy(env.SHOPIFY_TOKEN)

----------------------------------------------------------------------------
(* Replies of the external services *)

Reply(kind, tracking, package_number, labels) ==
    [kind |-> kind, tracking |-> tracking, package_number |-> package_number, labels |-> labels]

NoReply == Reply("none", NoneV, NoneV, NoneV)

\* what book_shipment can end with: the payload is rejected before the
\* request, the carrier answers non-success (BringError), the body cannot be
\* read as a booking result, or a success body
BookReplies ==
    { Reply("invalid", NoneV, NoneV, NoneV),
      Reply("bring_error", NoneV, NoneV, NoneV),
      Reply("malformed", NoneV, NoneV, NoneV) }
    \cup { Reply("ok", tr, pk, lb) : tr \in {NoneV, "T"}, pk \in {NoneV, "P1"}, lb \in {NoneV, "U"} }

\* what ShopifyClient.get_order can end with
Fetched(kind, order) == [kind |-> kind, order |-> order]

GetOrderReplies ==
    { Fetched("raise", NoOrder),
      Fetched("no_order", NoOrder),
      Fetched("order", Order("o4", FetchedFull, NoAddr)),
      Fetched("order", Order("o4", EmptyAddr, NoAddr)) }

DownloadOutcomes == {"ok", "http_error", "conn_error", "write_error"}

FulfillOutcomes == {"ok", "list_error", "no_fulfillment_order", "no_line_items", "fulfill_error"}

MergeOutcomes == {"ok", "read_error", "write_error"}

----------------------------------------------------------------------------
(* Frames *)

Payload(sender, recipient, return_to, package, test) ==
    [sender |-> sender, recipient |-> recipient, returnTo |-> return_to,
     package |-> package, testIndicator |-> test]

Package(weight) == [weightInKg |-> weight]

NoParty == Recipient(NoneV, NoneV, NoneV)

NoPayload == Payload(NoParty, NoParty, NoParty, Package(0), FALSE)

\* the locals of process_next_job; they are kept after the return until the
\* next call, with ret the returned value
ThreadInit ==
    [pc        |-> "idle",
     job_id    |-> 0,
     order     |-> NoOrder,
     shopify   |-> FALSE,
     recipient |-> NoRecipient,
     refetches |-> 0,
     payload   |-> NoPayload,
     test_header |-> FALSE,
     bookings  |-> 0,
     result    |-> NoReply,
     dl        |-> "none",
     ff        |-> "none",
     err       |-> "none",
     step      |-> "none",
     ret       |-> "none"]

NoName == <<"", "", "">>

Summary(valid, n, labels, merged, errors) ==
    [valid |-> valid, processed_jobs |-> n, downloaded_labels |-> labels,
     merged_label |-> merged, errors |-> errors]

NoSummary == Summary(FALSE, 0, <<>>, NoName, <<>>)

RunArgs(test, fulfill, ret, merge) ==
    [test_indicator |-> test, update_fulfill |-> fulfill, return_label |-> ret, merge_labels |-> merge]

\* the calls of process_all_pending_jobs in the repository: the CLI main
\* (defaults), api_fulfill, and api_process with its query flags
RunCalls ==
    { RunArgs(NoneV, NoneV, FALSE, TRUE),
      RunArgs("False", "True", FALSE, TRUE),
      RunArgs("True", "False", TRUE, TRUE) }

\* the locals of process_all_pending_jobs; merge tells how the try block of
\* lines 350-360 ended: "none" (not entered), "ok" or "raised"
RunInit ==
    [phase                   |-> "none",
     processed_jobs          |-> 0,
     args                    |-> RunArgs(NoneV, NoneV, FALSE, TRUE),
     original_test_indicator |-> NoneV,
     original_fulfill        |-> NoneV,
     original_flag           |-> FALSE,
     merge                   |-> "none",
     summary                 |-> NoSummary]

----------------------------------------------------------------------------
(* Label files *)

label_name(test, package_number) ==
    <<"label", IF test THEN "(test)-" ELSE "", Or(package_number, "unknown")>>

merged_name(t) == <<"labels-merged", "", ToString(t)>>

write_file(fs, name, pages) ==
    [ n \in DOMAIN fs \cup {name} |-> IF n = name THEN pages ELSE fs[n] ]

RECURSIVE unlink_all(_, _)
unlink_all(fs, paths) ==
    IF paths = <<>> THEN fs
    ELSE unlink_all([ n \in DOMAIN fs \ {Head(paths)} |-> fs[n] ], Tail(paths))

\* combine_pdfs: the pages of every input that exists, in input order
RECURSIVE combine_pdfs(_, _)
combine_pdfs(input_paths, fs) ==
    IF input_paths = <<>> THEN <<>>
    ELSE (IF Head(input_paths) \in DOMAIN fs THEN fs[Head(input_paths)] ELSE <<>>)
         \o combine_pdfs(Tail(input_paths), fs)

----------------------------------------------------------------------------------------------------------------------------------------
(* process_next_job *)

\* the clients constructed before the try statement
Handler_client_outside(step) ==
    CASE step \in {"shopify_client", "refetch", "fulfill"} -> "log"
      [] step \in {"recipient", "address", "payload", "booking",
                   "parse", "tracking", "download"} -> "fail"
      [] OTHER -> "propagate"

\* the fulfillment update without its own try statement
Handler_fulfill_fails(step) ==
    CASE step \in {"shopify_client", "refetch"} -> "log"
      [] step \in {"client", "recipient", "address", "payload", "booking",
                   "parse", "tracking", "download", "fulfill"} -> "fail"
      [] OTHER -> "propagate"

\* which except clause receives an exception raised at a step:
\*   "log"  an inner try/except logs it and the job goes on,
\*   "fail" the outer handlers of process_next_job mark the job failed,
\*   "propagate" no handler of process_next_job encloses the step
Handler(step) ==
    CASE step = "shopify_client" -> "log"
      [] step = "refetch"        -> "log"
      [] step = "fulfill"        -> "log"
      [] step \in {"client", "recipient", "address", "payload", "booking",
                   "parse", "tracking", "download"} -> "fail"
      [] OTHER -> "propagate"

\* the message names the order id of the job and the text of the exception
Msg(kind, id, step) == [kind |-> kind, id |-> id, step |-> step]

\* the frame after the return: what the call did to the job is kept until
\* the next call
Keep(f, kind, step, ret) ==
    [ThreadInit EXCEPT !.job_id = f.job_id, !.refetches = f.refetches,
                       !.bookings = f.bookings, !.dl = f.dl, !.ff = f.ff,
                       !.err = kind, !.step = step, !.ret = ret]

\* the loop of process_all_pending_jobs without line 344: the job is not counted
Returned_uncounted(t) == run

\* process_next_job returned True inside the loop of process_all_pending_jobs
Returned(t) ==
    [run EXCEPT ![t].processed_jobs = IF run[t].phase = "loop" THEN @ + 1 ELSE @]

\* the outer except clauses: record the message, mark the job failed
Fail(t, kind, step, f, dt) ==
    /\ th' = [th EXCEPT ![t] = Keep(f, kind, step, "True")]
    /\ PROCESS_ERRORS' = Append(PROCESS_ERRORS, Msg(kind, jobs[f.job_id].payload.id, step))
    /\ now' = time_time(now, dt)
    /\ jobs' = update_status(jobs, f.job_id, "failed", now')
    /\ run' = Returned(t)

\* the exception leaves process_next_job and, in a run, process_all_pending_jobs
Propagate(t, step, f) ==
    /\ th' = [th EXCEPT ![t] = Keep(f, "raised", step, "raised")]
    /\ run' = [run EXCEPT ![t] = [RunInit EXCEPT !.summary = run[t].summary]]
    /\ UNCHANGED <<jobs, now, PROCESS_ERRORS>>

Raise(t, kind, step, f, dt) ==
    IF Handler(step) = "propagate" THEN Propagate(t, step, f) ELSE Fail(t, kind, step, f, dt)

\* lines 170-176: claim the next job, or return False
Claim(t) ==
    /\ th[t].pc = "idle"
    /\ \/ run[t].phase = "loop"
       \/ run[t].phase = "none" /\ environ.WORKER_POLL_INTERVAL = "poll"
    /\ jobs' = get_next_job_rows(jobs)
    /\ LET job_id == get_next_job(jobs) IN
         IF job_id = 0
         THEN /\ th' = [th EXCEPT ![t] = [ThreadInit EXCEPT !.ret = "False"]]
              /\ run' = [run EXCEPT ![t].phase = IF @ = "loop" THEN "merge" ELSE @]
         ELSE /\ th' = [th EXCEPT ![t] = [ThreadInit EXCEPT !.pc = "claimed", !.job_id = job_id]]
              /\ run' = run
    /\ UNCHANGED <<now, DOWNLOADED_LABELS, PROCESS_ERRORS, UPDATE_SHOPIFY_FULFILL,
                   environ, startenv, settings, files, carrier, crashes>>

\* lines 187-198: the recipient of the queued order and, when it is not
\* usable, the single re-fetch of the order from the storefront
resolve_recipient_retrying(order, shopify, full) ==
    LET recipient == build_recipient(order)
        asks  == ~has_min_recipient(recipient) /\ shopify /\ Truthy(order.id)
        found == asks /\ full.kind = "order"
        again == asks /\ ~(found /\ has_min_recipient(build_recipient(full.order)))
    IN  [order     |-> IF found THEN full.order ELSE order,
         recipient |-> IF found THEN build_recipient(full.order) ELSE recipient,
         refetches |-> IF again THEN 2 ELSE IF asks THEN 1 ELSE 0]

resolve_recipient(order, shopify, full) ==
    LET recipient == build_recipient(order)
        oid   == order.id
        asks  == ~has_min_recipient(recipient) /\ shopify /\ Truthy(oid)
        found == asks /\ full.kind = "order"
    IN  [order     |-> IF found THEN full.order ELSE order,
         recipient |-> IF found THEN build_recipient(full.order) ELSE recipient,
         refetches |-> IF asks THEN 1 ELSE 0]

\* lines 179-202: clients, recipient, address check
Prepare(t, full, dt) ==
    /\ th[t].pc = "claimed"
    /\ LET f       == th[t]
           order   == jobs[f.job_id].payload.order
           shopify == ShopifyClient_ok(environ)
           f0      == [f EXCEPT !.order = order,
                                !.test_header = get_settings(settings, environ).BRING_TEST_INDICATOR]
       IN  IF ~BringClient_ok(environ) THEN Raise(t, "other", "client", f0, dt)
           ELSE IF build_recipient_raises(order)
                THEN Raise(t, "other", "recipient", [f0 EXCEPT !.shopify = shopify], dt)
           ELSE LET res == resolve_recipient(order, shopify, full)
                    f1  == [f0 EXCEPT !.shopify = shopify, !.order = res.order,
                                      !.recipient = res.recipient, !.refetches = res.refetches]
                IN  IF ~has_min_recipient(res.recipient)
                    THEN Raise(t, "other", "address", f1, dt)
                    ELSE /\ th' = [th EXCEPT ![t] = [f1 EXCEPT !.pc = "prepared"]]
                         /\ UNCHANGED <<jobs, now, PROCESS_ERRORS, run>>
    /\ settings' = get_settings(settings, environ)
    /\ UNCHANGED <<DOWNLOADED_LABELS, UPDATE_SHOPIFY_FULFILL, environ, startenv,
                   files, carrier, crashes>>

\* lines 204-215: the parties of a forward or a return label
\* `int(v or d)` for a value that is absent or a number
int_or(v, default) == IF v = <<>> \/ v[1] = 0 THEN default ELSE v[1]

Max(a, b) == IF a >= b THEN a ELSE b

\* lines 134-139: the loop over the line items
RECURSIVE total_grams(_)
total_grams(line_items) ==
    IF line_items = <<>> THEN 0
    ELSE Max(0, int_or(Head(line_items).grams, 0)) * Max(1, int_or(Head(line_items).quantity, 1))
         + total_grams(Tail(line_items))

\* round(weight_kg, 3): to the nearest gram, a half to the even gram
round3(w) ==
    LET q == w \div 10
        r == w % 10
    IN  IF r < 5 THEN q * 10
        ELSE IF r > 5 THEN (q + 1) * 10
        ELSE IF q % 2 = 0 THEN q * 10 ELSE (q + 1) * 10

\* build_package without the lower limit of the default weight
build_package_no_minimum(order, env) ==
    LET grams == total_grams(order.line_items)
    IN  Package(round3(IF grams # 0 THEN grams * 10 ELSE env.BRING_WEIGHT_KG))

\* build_package; DEFAULT_PACKAGE is read from the environment at import
build_package(order, env) ==
    LET grams   == total_grams(order.line_items)
        default == env.BRING_WEIGHT_KG
    IN  Package(round3(Max(default, IF grams # 0 THEN grams * 10 ELSE default)))

\* lines 216-229: the contact of the return recipient, each field filled from
\* the first setting that has it
return_contact(return_to_env, sender_env, recipient, env) ==
    Contact(Or(Or(Or(return_to_env.contact.email, env.BRING_RETURN_EMAIL),
                  sender_env.contact.email), recipient.contact.email),
            Or(Or(Or(return_to_env.contact.phoneNumber, env.BRING_RETURN_PHONE),
                  sender_env.contact.phoneNumber), recipient.contact.phoneNumber))

\* a return label that keeps the forward roles
booking_parties_forward_only(recipient, return_label, env) ==
    [sender |-> sender_from_env(env), recipient |-> recipient, return_to |-> sender_from_env(env)]

booking_parties(recipient, return_label, env) ==
    LET sender_env    == sender_from_env(env)
        return_to_env == return_to_from_env(env)
    IN  IF return_label
        THEN [sender    |-> recipient,
              recipient |-> [return_to_env EXCEPT
                               !.contact = return_contact(return_to_env, sender_env, recipient, env)],
              return_to |-> NoParty]
        ELSE [sender |-> sender_env, recipient |-> recipient, return_to |-> sender_env]

\* BringClient.build_booking_payload
build_booking_payload(parties, package, env) ==
    Payload(parties.sender, parties.recipient, parties.return_to, package,
            env.BRING_TEST_INDICATOR # "false")

\* BringClient.book_shipment: a payload that fails the pre-flight validation
\* raises before any request, a non-success answer of the carrier raises
\* BringError, a success answer is returned as the parsed body
book_shipment(reply) ==
    [raises |-> CASE reply.kind = "invalid"     -> "ValueError"
                  [] reply.kind = "bring_error" -> "BringError"
                  [] OTHER                      -> "none",
     sent   |-> reply.kind # "invalid"]

\* lines 244-250: reading the result raises when the body is not the dict of
\* dicts and lists the code walks through
parse_raises(result) == result.kind = "malformed"

\* the check of line 251 left out
missing_tracking_unchecked(result) == FALSE

\* line 251: a result without consignmentNumber
missing_tracking(result) == ~Truthy(result.tracking)

\* lines 203-252: payload, booking, reading the result
Book(t, reply, dt) ==
    /\ th[t].pc = "prepared"
    /\ LET f       == th[t]
           parties == booking_parties(f.recipient, run[t].phase = "loop" /\ run[t].args.return_label,
                                      environ)
           payload == build_booking_payload(parties, build_package(f.order, startenv), environ)
           call    == book_shipment(reply)
           f1      == [f EXCEPT !.payload = payload, !.result = reply,
                                !.bookings = IF call.sent THEN 1 ELSE 0]
       IN  /\ carrier' = [carrier EXCEPT ![f.job_id] = IF call.sent THEN @ + 1 ELSE @]
           /\ CASE call.raises = "ValueError" -> Raise(t, "other", "payload", f1, dt)
                [] call.raises = "BringError" -> Raise(t, "bring", "booking", f1, dt)
                [] call.raises = "none" /\ parse_raises(reply) -> Raise(t, "other", "parse", f1, dt)
                [] call.raises = "none" /\ ~parse_raises(reply) /\ missing_tracking(reply) ->
                       Raise(t, "other", "tracking", f1, dt)
                [] OTHER -> /\ th' = [th EXCEPT ![t] = [f1 EXCEPT !.pc = "booked"]]
                            /\ UNCHANGED <<jobs, now, PROCESS_ERRORS, run>>
    /\ UNCHANGED <<DOWNLOADED_LABELS, UPDATE_SHOPIFY_FULFILL, environ, startenv, settings,
                   files, crashes>>

\* lines 254-260 with download_label (150-162)
Download(t, outcome, dt) ==
    /\ th[t].pc = "booked"
    /\ LET f           == th[t]
           destination == label_name(f.payload.testIndicator, f.result.package_number)
           page        == <<f.job_id>>
           goes_on(o)  == /\ th' = [th EXCEPT ![t] = [f EXCEPT !.pc = "labelled", !.dl = o]]
                          /\ UNCHANGED <<jobs, now, PROCESS_ERRORS, run>>
           raises(o)   == IF Handler("download") = "log" THEN goes_on(o)
                          ELSE Raise(t, "other", "download", [f EXCEPT !.dl = o], dt)
       IN  IF ~Truthy(f.result.labels)
           THEN /\ goes_on("no_url")
                /\ UNCHANGED <<DOWNLOADED_LABELS, files>>
           ELSE CASE outcome = "ok" ->
                       /\ files' = write_file(files, destination, page)
                       /\ DOWNLOADED_LABELS' = Append(DOWNLOADED_LABELS, destination)
                       /\ goes_on(outcome)
                  [] outcome = "http_error" ->
                       /\ UNCHANGED <<DOWNLOADED_LABELS, files>>
                       /\ goes_on(outcome)
                  [] outcome = "conn_error" ->
                       /\ UNCHANGED <<DOWNLOADED_LABELS, files>>
                       /\ raises(outcome)
                  [] outcome = "write_error" ->
                       /\ files' = write_file(files, destination, <<>>)
                       /\ UNCHANGED DOWNLOADED_LABELS
                       /\ raises(outcome)
    /\ UNCHANGED <<UPDATE_SHOPIFY_FULFILL, environ, startenv, settings, carrier, crashes>>

\* lines 263-296: the storefront fulfillment update
Fulfill(t, outcome, dt) ==
    /\ th[t].pc = "labelled"
    /\ LET f        == th[t]
           attempts == UPDATE_SHOPIFY_FULFILL /\ f.shopify /\ Truthy(f.result.tracking)
           f1       == [f EXCEPT !.ff = IF attempts THEN outcome ELSE "skipped"]
       IN  IF attempts /\ outcome # "ok" /\ Handler("fulfill") # "log"
           THEN Raise(t, "other", "fulfill", f1, dt)
           ELSE /\ th' = [th EXCEPT ![t] = [f1 EXCEPT !.pc = "fulfilled"]]
                /\ UNCHANGED <<jobs, now, PROCESS_ERRORS, run>>
    /\ UNCHANGED <<DOWNLOADED_LABELS, UPDATE_SHOPIFY_FULFILL, environ, startenv, settings,
                   files, carrier, crashes>>

\* lines 298-299 and 311
MarkDone(t, dt) ==
    /\ th[t].pc = "fulfilled"
    /\ now' = time_time(now, dt)
    /\ jobs' = update_status(jobs, th[t].job_id, "done", now')
    /\ th' = [th EXCEPT ![t] = Keep(th[t], "none", "none", "True")]
    /\ run' = Returned(t)
    /\ UNCHANGED <<DOWNLOADED_LABELS, PROCESS_ERRORS, UPDATE_SHOPIFY_FULFILL,
                   environ, startenv, settings, files, carrier, crashes>>

----------------------------------------------------------------------------
(* process_all_pending_jobs *)

EnvFlag(b) == IF b = "True" THEN "true" ELSE "false"

\* lines 325-338: clear the run's lists, remember and override the settings
RunStart(t, args) ==
    /\ th[t].pc = "idle"
    /\ run[t].phase = "none"
    /\ environ.WORKER_POLL_INTERVAL = "run"
    /\ DOWNLOADED_LABELS' = <<>>
    /\ PROCESS_ERRORS' = <<>>
    /\ th' = [th EXCEPT ![t] = ThreadInit]
    /\ run' = [run EXCEPT ![t] =
                 [phase                   |-> "loop",
                  processed_jobs          |-> 0,
                  args                    |-> args,
                  original_test_indicator |-> environ.BRING_TEST_INDICATOR,
                  original_fulfill        |-> environ.SHOPIFY_UPDATE_FULFILL,
                  original_flag           |-> UPDATE_SHOPIFY_FULFILL,
                  merge                   |-> "none",
                  summary                 |-> NoSummary]]
    /\ environ' = [environ EXCEPT
                     !.BRING_TEST_INDICATOR =
                        IF args.test_indicator # NoneV THEN EnvFlag(args.test_indicator) ELSE @,
                     !.SHOPIFY_UPDATE_FULFILL =
                        IF args.update_fulfill # NoneV THEN EnvFlag(args.update_fulfill) ELSE @]
    /\ UPDATE_SHOPIFY_FULFILL' =
          IF args.update_fulfill # NoneV THEN args.update_fulfill = "True"
          ELSE UPDATE_SHOPIFY_FULFILL
    /\ UNCHANGED <<jobs, now, startenv, settings, files, carrier, crashes>>

\* lines 351-358 with the files deleted before the merged file is written
merge_files_deleting_first(fs, labels, merged_label, outcome) ==
    IF outcome = "read_error" THEN unlink_all(fs, labels)
    ELSE IF outcome = "write_error" THEN write_file(unlink_all(fs, labels), merged_label, <<>>)
    ELSE unlink_all(write_file(fs, merged_label, combine_pdfs(labels, fs)), labels)

\* lines 351-358: combine_pdfs raises while it reads a label (nothing is
\* written), raises while it writes the merged file (a partial file stays), or
\* returns, and only then the labels are unlinked
merge_files(fs, labels, merged_label, outcome) ==
    IF outcome = "read_error" THEN fs
    ELSE IF outcome = "write_error" THEN write_file(fs, merged_label, <<>>)
    ELSE unlink_all(write_file(fs, merged_label, combine_pdfs(labels, fs)), labels)

\* lines 348-380: merge the labels of the run, restore the settings, return
RunFinish(t, outcome, dt) ==
    /\ run[t].phase = "merge"
    /\ LET r            == run[t]
           merging      == r.args.merge_labels /\ DOWNLOADED_LABELS # <<>>
           tm           == time_time(now, dt)
           merged_label == IF merging THEN merged_name(tm) ELSE NoName
       IN  /\ now' = IF merging THEN tm ELSE now
           /\ files' = IF merging THEN merge_files(files, DOWNLOADED_LABELS, merged_label, outcome)
                       ELSE files
           /\ run' = [run EXCEPT ![t] =
                        [RunInit EXCEPT
                           !.merge = IF ~merging THEN "none"
                                     ELSE IF outcome = "ok" THEN "ok" ELSE "raised",
                           !.summary =
                              Summary(TRUE, r.processed_jobs, DOWNLOADED_LABELS,
                                      merged_label, PROCESS_ERRORS)]]
           /\ environ' = [environ EXCEPT
                            !.BRING_TEST_INDICATOR =
                               IF r.args.test_indicator # NoneV
                               THEN r.original_test_indicator ELSE @,
                            !.SHOPIFY_UPDATE_FULFILL =
                               IF r.args.update_fulfill # NoneV
                               THEN r.original_fulfill ELSE @]
           /\ UPDATE_SHOPIFY_FULFILL' =
                IF r.args.update_fulfill # NoneV THEN r.original_flag
                ELSE UPDATE_SHOPIFY_FULFILL
    /\ UNCHANGED <<jobs, th, DOWNLOADED_LABELS, PROCESS_ERRORS, startenv, settings, carrier, crashes>>

----------------------------------------------------------------------------
(* The frames of the client calls *)

\* no book_consignment call has been made
BringInit ==
    [pc |-> "idle", op |-> "none", payload |-> <<>>, posts |-> 0, ret |-> "none", msg |-> ""]

\* the ingress server after its start with PACKCHICKEN_TOKEN = token
InboxInit(token) ==
    [token |-> token, requests |-> 0, tasks |-> <<>>, processed |-> <<>>,
     last |-> [order_number |-> NoneV, valid |-> TRUE, authorization |-> NoneV, status |-> 0]]

\* no pick_address call has been made
PickInit == [pc |-> "idle", rows |-> <<>>, prefix |-> "", ret |-> <<>>]

\* no _request call has been made
RequestInit ==
    [pc |-> "idle", attempt |-> 0, requests |-> 0, seen |-> <<>>, slept |-> <<>>, ret |-> "none"]

----------------------------------------------------------------------------
(* BringClient.book_consignment (clients/bring_client.py) *)

\* a party of a consignment; a key that is absent reads as None
BringParty(name, addressLine, postalCode, city, countryCode) ==
    [present |-> TRUE, name |-> name, addressLine |-> addressLine,
     postalCode |-> postalCode, city |-> city, countryCode |-> countryCode]

\* the key of the party is not in cons["parties"]
AbsentParty == [BringParty(NoneV, NoneV, NoneV, NoneV, NoneV) EXCEPT !.present = FALSE]

PartyKeys == <<"name", "addressLine", "postalCode", "city", "countryCode">>

DimensionKeys == {"lengthInCm", "widthInCm", "heightInCm"}

\* a package: weightInKg in grams, <<>> when the key is absent; dimensions
\* as the set of its keys, {} when the key is absent or None
BringPackage(weight, dimensions) == [weightInKg |-> weight, dimensions |-> dimensions]

\* a consignment: has_parties, has_product and has_packages tell whether the
\* key is there
BringConsignment(sender, recipient, product_id, packages) ==
    [has_parties |-> TRUE, sender |-> sender, recipient |-> recipient,
     has_product |-> TRUE, product_id |-> product_id,
     has_packages |-> TRUE, packages |-> packages]

\* the payload: schemaVersion is <<>> when absent, consignments_is_list is
\* FALSE when the value under "consignments" is absent or not a list
BringPayload(customerNumber, schemaVersion, consignments) ==
    [customerNumber |-> customerNumber, schemaVersion |-> schemaVersion,
     consignments_is_list |-> TRUE, consignments |-> consignments]

\* the first of the keys, from position i on, that the party lacks; "" if none
RECURSIVE missing_key(_, _, _)
missing_key(s, r, i) ==
    IF i > Len(PartyKeys) THEN ""
    ELSE IF ~Truthy(s[PartyKeys[i]]) THEN "sender." \o PartyKeys[i] \o " missing"
    ELSE IF ~Truthy(r[PartyKeys[i]]) THEN "recipient." \o PartyKeys[i] \o " missing"
    ELSE missing_key(s, r, i + 1)

\* _validate_payload without the check of the package weight
validate_message_any_weight(payload) ==
    IF ~Truthy(payload.customerNumber) THEN "customerNumber missing"
    ELSE IF payload.schemaVersion # <<1>> THEN "schemaVersion must be 1"
    ELSE IF ~payload.consignments_is_list \/ payload.consignments = <<>> THEN "no consignments"
    ELSE LET cons == payload.consignments[1] IN
         IF ~cons.has_parties THEN "'parties'"
         ELSE IF ~cons.recipient.present THEN "'recipient'"
         ELSE IF ~cons.sender.present THEN "'sender'"
         ELSE IF ~cons.has_product \/ ~Truthy(cons.product_id) THEN "product.id missing"
         ELSE IF ~cons.has_packages THEN "'packages'"
         ELSE IF cons.packages = <<>> THEN "list index out of range"
         ELSE LET pkg == cons.packages[1] IN
              IF ~(DimensionKeys \subseteq pkg.dimensions) THEN "dimensions missing"
              ELSE missing_key(cons.sender, cons.recipient, 1)

\* _validate_payload, lines 196-217: the text of the first assertion, KeyError
\* or IndexError that stops it, "" when the payload passes
validate_message(payload) ==
    IF ~Truthy(payload.customerNumber) THEN "customerNumber missing"
    ELSE IF payload.schemaVersion # <<1>> THEN "schemaVersion must be 1"
    ELSE IF ~payload.consignments_is_list \/ payload.consignments = <<>> THEN "no consignments"
    ELSE LET cons == payload.consignments[1] IN
         IF ~cons.has_parties THEN "'parties'"
         ELSE IF ~cons.recipient.present THEN "'recipient'"
         ELSE IF ~cons.sender.present THEN "'sender'"
         ELSE IF ~cons.has_product \/ ~Truthy(cons.product_id) THEN "product.id missing"
         ELSE IF ~cons.has_packages THEN "'packages'"
         ELSE IF cons.packages = <<>> THEN "list index out of range"
         ELSE LET pkg == cons.packages[1] IN
              IF pkg.weightInKg = <<>> THEN "'weightInKg'"
              ELSE IF ~(pkg.weightInKg[1] > 0) THEN "weightInKg must be > 0"
              ELSE IF ~(DimensionKeys \subseteq pkg.dimensions) THEN "dimensions missing"
              ELSE missing_key(cons.sender, cons.recipient, 1)

\* lines 218-219: every failure is raised as ValueError
validate_payload(payload) ==
    IF validate_message(payload) = "" THEN "none" ELSE "ValueError"

\* the settings the payload is built from
BringSettings(customer_number, product, sender) ==
    [BRING_CUSTOMER_NUMBER |-> customer_number, BRING_PRODUCT |-> product, sender |-> sender]

\* the order fields _build_payload reads: the recipient's name after strip()
\* ("" when first and last name are blank), the address fields, the line items
BringOrder(name, shipping_address, line_items) ==
    [name |-> name, shipping_address |-> shipping_address, line_items |-> line_items]

\* lines 87-159: the payload of an order; the weight is the total of the line
\* items (500 g when that is 0), at least 10 g
build_payload(order, s) ==
    LET ship_addr == order.shipping_address
        grams     == IF total_grams(order.line_items) # 0
                     THEN total_grams(order.line_items) ELSE 500
    IN  BringPayload(s.BRING_CUSTOMER_NUMBER, <<1>>,
          << BringConsignment(
               s.sender,
               BringParty(order.name, Or(ship_addr.address1, "Testveien 2"),
                          Or(ship_addr.zip, "0150"), Or(ship_addr.city, "Oslo"), "NO"),
               s.BRING_PRODUCT,
               << BringPackage(<<Max(10, grams)>>, DimensionKeys) >>) >>)

\* _validate_payload(payload) called on its own
ValidatePayload(payload) ==
    /\ bring.pc = "idle"
    /\ bring' = [bring EXCEPT !.pc = "returned", !.op = "_validate_payload",
                              !.payload = payload,
                              !.ret = validate_payload(payload),
                              !.msg = validate_message(payload)]
    /\ UNCHANGED <<worker_vars, http, inbox, csv>>

\* book_consignment, lines 61-64: build the payload, which validates it, and
\* return it at once for a dry run
BuildConsignment(order, s, dry_run) ==
    /\ bring.pc = "idle"
    /\ LET payload == build_payload(order, s)
           raised  == validate_payload(payload)
       IN  bring' = [bring EXCEPT
                       !.op = "book_consignment",
                       !.payload = payload,
                       !.msg = validate_message(payload),
                       !.ret = IF raised # "none" THEN raised
                               ELSE IF dry_run THEN "dry_run" ELSE "none",
                       !.pc  = IF raised = "none" /\ ~dry_run THEN "built" ELSE "returned"]
    /\ UNCHANGED <<worker_vars, http, inbox, csv>>

\* book_consignment, lines 66-83: the POST and the result
PostConsignment(status) ==
    /\ bring.pc = "built"
    /\ bring' = [bring EXCEPT !.pc = "returned", !.posts = @ + 1,
                              !.ret = IF status = "raise" THEN "RequestException"
                                      ELSE IF status = "error" THEN "failed" ELSE "booked"]
    /\ UNCHANGED <<worker_vars, http, inbox, csv>>

\* the caller makes the next call
NextBringCall ==
    /\ bring.pc = "returned"
    /\ bring' = [BringInit EXCEPT !.posts = bring.posts]
    /\ UNCHANGED <<worker_vars, http, inbox, csv>>

----------------------------------------------------------------------------
(* ShopifyClient._request (clients/shopify_client.py) *)

MAX_RETRIES == 5

\* BACKOFF_BASE = 0.6 seconds; times are in tenths of a second
BACKOFF_BASE == 6

RetryStatuses == {429, 500, 502, 503, 504}

\* what session.request ends with: status 0 stands for a raised
\* RequestException, retry_after for resp.headers.get("Retry-After")
Response(status, retry_after) == [status |-> status, retry_after |-> retry_after]

\* resp.ok
ok(resp) == resp.status # 0 /\ resp.status < 400

\* float(retry_after) in tenths of a second, <<>> when float raises ValueError
float_of(text) ==
    CASE text = "3"   -> <<30>>
      [] text = "-1"  -> <<-10>>
      [] OTHER        -> <<>>

RECURSIVE pow2(_)
pow2(n) == IF n = 0 THEN 1 ELSE 2 * pow2(n - 1)

backoff(attempt) == BACKOFF_BASE * pow2(attempt - 1)

\* lines 53 and 61-68: the time to sleep after a failed attempt
sleep_s(resp, attempt) ==
    IF resp.status # 0 /\ Truthy(resp.retry_after) /\ float_of(resp.retry_after) # <<>>
    THEN float_of(resp.retry_after)[1]
    ELSE backoff(attempt)

\* a caller enters _request: line 46, the first turn of the loop
RequestCall ==
    /\ http.pc \in {"idle", "returned"}
    /\ http' = [RequestInit EXCEPT !.pc = "attempt", !.attempt = 1]
    /\ UNCHANGED <<worker_vars, bring, inbox, csv>>

\* lines 47-80: one turn of the loop, with the response of the server
Attempt(resp) ==
    /\ http.pc = "attempt"
    /\ LET h == [http EXCEPT !.requests = @ + 1, !.seen = Append(@, resp)]
           returns(ret) == [h EXCEPT !.pc = "returned", !.ret = ret]
           retryable == resp.status = 0 \/ resp.status \in RetryStatuses
       IN  http' =
             IF retryable
             THEN IF http.attempt >= MAX_RETRIES
                  THEN returns(IF resp.status = 0 THEN "RequestException" ELSE "HTTPError")
                  ELSE IF sleep_s(resp, http.attempt) < 0
                  THEN returns("ValueError")
                  ELSE [h EXCEPT !.attempt = @ + 1,
                                 !.slept = Append(@, sleep_s(resp, http.attempt))]
             ELSE IF ~ok(resp) THEN returns("HTTPError")
             ELSE returns("body")
    /\ UNCHANGED <<worker_vars, bring, inbox, csv>>

----------------------------------------------------------------------------
(* The ingress server (packchicken_server.py) *)

Bearer(token) == "Bearer " \o token

\* inbox_email_order that schedules the order whatever the header says
inbox_email_order_open(token, authorization) == 200

\* inbox_email_order, lines 57-63: the status of the answer, 200 with the
\* body {"status": "accepted"}
inbox_email_order(token, authorization) ==
    IF Truthy(token) /\ authorization # Bearer(token) THEN 401 ELSE 200

\* a POST /inbox/email-order: a body that does not fit InboxPayload (lines
\* 12-37) is answered 422 by the framework before the handler runs; line 62
\* schedules process_order when the handler does not raise
InboxRequest(order_number, valid, authorization) ==
    /\ LET status == IF ~valid THEN 422
                     ELSE inbox_email_order(inbox.token, authorization)
       IN  inbox' = [inbox EXCEPT
                       !.requests = @ + 1,
                       !.tasks = IF status = 200 THEN Append(@, order_number) ELSE @,
                       !.last = [order_number |-> order_number, valid |-> valid,
                                 authorization |-> authorization, status |-> status]]
    /\ UNCHANGED <<worker_vars, bring, http, csv>>

\* process_order, lines 42-47, run as background task after the answer: it
\* logs the order number and does nothing else
ProcessOrder ==
    /\ inbox.tasks # <<>>
    /\ inbox' = [inbox EXCEPT !.tasks = Tail(@), !.processed = Append(@, Head(inbox.tasks))]
    /\ UNCHANGED <<worker_vars, bring, http, csv>>

----------------------------------------------------------------------------
(* utils/orders_csv.py: pick_address *)

\* the columns of one prefix ("Shipping" or "Billing") in a CSV row; a column
\* that the file lacks reads as None, an empty cell as ""
Columns(name, address1, street, address2, city, zip) ==
    [Name |-> name, Address1 |-> address1, Street |-> street, Address2 |-> address2,
     City |-> city, Zip |-> zip]

\* a row of the export: its Name column and the columns of the two prefixes
CsvRow(name, shipping, billing) == [Name |-> name, Shipping |-> shipping, Billing |-> billing]

\* the dict pick_address returns
Picked(name, address1, address2, city, zip) ==
    [name |-> name, address1 |-> address1, address2 |-> address2, city |-> city, zip |-> zip]

\* line 28: the row has an address for the prefix
has_address(row, prefix) ==
    Truthy(row[prefix].Address1) \/ Truthy(row[prefix].City) \/ Truthy(row[prefix].Zip)

\* pick_address that looks at the first row only
pick_address_first_row(rows, prefix) ==
    IF has_address(rows[1], prefix)
    THEN LET c == rows[1][prefix]
         IN  Picked(Or(c.Name, rows[1].Name), Or(c.Address1, c.Street), Or(c.Address2, ""),
                    Or(c.City, ""), Or(c.Zip, ""))
    ELSE Picked(rows[1].Name, "", "", "", "")

\* pick_address, lines 26-48: rows is not empty (a group holds the rows of
\* one order key)
RECURSIVE pick_address_from(_, _, _)
pick_address_from(rows, prefix, i) ==
    IF i > Len(rows) THEN Picked(rows[1].Name, "", "", "", "")
    ELSE IF has_address(rows[i], prefix)
    THEN LET c == rows[i][prefix]
         IN  Picked(Or(c.Name, rows[i].Name), Or(c.Address1, c.Street), Or(c.Address2, ""),
                    Or(c.City, ""), Or(c.Zip, ""))
    ELSE pick_address_from(rows, prefix, i + 1)

pick_address(rows, prefix) == pick_address_from(rows, prefix, 1)

\* a call of pick_address
PickAddress(rows, prefix) ==
    /\ csv.pc = "idle"
    /\ csv' = [pc |-> "returned", rows |-> rows, prefix |-> prefix,
               ret |-> pick_address(rows, prefix)]
    /\ UNCHANGED <<worker_vars, bring, http, inbox>>

\* rows_to_job goes on to the next call
NextPick ==
    /\ csv.pc = "returned"
    /\ csv' = PickInit
    /\ UNCHANGED <<worker_vars, bring, http, inbox>>

----------------------------------------------------------------------------
(* The environment of the worker *)

\* an enqueuing process (CSV import) calls add_job
AddJob(order, dt1, dt2) ==
    /\ jobs' = add_job(jobs, rows_to_job(order), time_time(now, dt1),
                       time_time(time_time(now, dt1), dt2))
    /\ now' = time_time(time_time(now, dt1), dt2)
    /\ carrier' = Append(carrier, 0)
    /\ UNCHANGED <<th, run, DOWNLOADED_LABELS, PROCESS_ERRORS, UPDATE_SHOPIFY_FULFILL,
                   environ, startenv, settings, files, crashes>>

Busy(t) == th[t].pc # "idle" \/ run[t].phase # "none"

\* the worker process dies and is started again: the store, the label files
\* and the carrier's bookings stay, the memory of the process is lost
Crash ==
    /\ \E t \in DOMAIN th : Busy(t)
    /\ crashes' = crashes + 1
    /\ th' = [t \in DOMAIN th |-> ThreadInit]
    /\ run' = [t \in DOMAIN run |-> RunInit]
    /\ DOWNLOADED_LABELS' = <<>>
    /\ PROCESS_ERRORS' = <<>>
    /\ environ' = startenv
    /\ UPDATE_SHOPIFY_FULFILL' = ImportFlag(startenv)
    /\ settings' = NoSettings
    /\ UNCHANGED <<jobs, now, startenv, files, carrier, bring, http, inbox, csv>>

InitWith(threads, envs) ==
    /\ jobs = <<>>
    /\ now = 0
    /\ th = [t \in threads |-> ThreadInit]
    /\ run = [t \in threads |-> RunInit]
    /\ DOWNLOADED_LABELS = <<>>
    /\ PROCESS_ERRORS = <<>>
    /\ startenv \in envs
    /\ environ = startenv
    /\ UPDATE_SHOPIFY_FULFILL = ImportFlag(startenv)
    /\ files = << >>
    /\ carrier = <<>>
    /\ crashes = 0
    /\ bring = BringInit
    /\ http = RequestInit
    /\ settings = NoSettings
    /\ inbox = InboxInit(NoneV)
    /\ csv = PickInit

\* the clock readings that stay within the modelled time
Ticks(I) == { dt \in I.ticks : time_time(now, dt) <= MaxTime }

\* the steps of one worker thread, with the answers of the services and the
\* clock drawn from the sets of I
Worker(t, I) ==
    /\ UNCHANGED <<bring, http, inbox, csv>>
    /\ \/ Claim(t)
       \/ \E full \in I.fulls, dt \in Ticks(I) : Prepare(t, full, dt)
       \/ \E reply \in I.replies, dt \in Ticks(I) : Book(t, reply, dt)
       \/ \E outcome \in I.downloads, dt \in Ticks(I) : Download(t, outcome, dt)
       \/ \E outcome \in I.fulfills, dt \in Ticks(I) : Fulfill(t, outcome, dt)
       \/ \E dt \in Ticks(I) : MarkDone(t, dt)
       \/ \E args \in I.calls : RunStart(t, args)
       \/ \E outcome \in I.merges, dt \in Ticks(I) : RunFinish(t, outcome, dt)

Enqueue(I, max) ==
    /\ Len(jobs) < max
    /\ \E order \in I.orders, dt1 \in Ticks(I), dt2 \in I.ticks :
          /\ time_time(time_time(now, dt1), dt2) <= MaxTime
          /\ AddJob(order, dt1, dt2)
    /\ UNCHANGED <<bring, http, inbox, csv>>

Inputs(orders, fulls, replies, downloads, fulfills, merges, calls, ticks) ==
    [orders |-> orders, fulls |-> fulls, replies |-> replies, downloads |-> downloads,
     fulfills |-> fulfills, merges |-> merges, calls |-> calls, ticks |-> ticks]

----------------------------------------------------------------------------------------------------------------------------------------
(* Specification Spec: one worker process with one thread and an enqueuer; *)
(* every answer of the services; the clock stands still                    *)

PipelineInputs ==
    Inputs(Orders, GetOrderReplies, BookReplies, DownloadOutcomes, FulfillOutcomes,
           MergeOutcomes, RunCalls, {0})

Init == InitWith({1}, StartEnvs)

Next ==
    \/ Enqueue(PipelineInputs, MaxJobs)
    \/ \E t \in DOMAIN th : Worker(t, PipelineInputs)

Spec == Init /\ [][Next]_vars

----------------------------------------------------------------------------
(* Specification SpecStore: the store under a running clock; the worker    *)
(* books without label and without storefront update                       *)

MaxStoreJobs == 3

StoreInputs ==
    Inputs({Order("o1", ShipFull, NoAddr)}, {Fetched("no_order", NoOrder)},
           {Reply("bring_error", NoneV, NoneV, NoneV), Reply("ok", "T", NoneV, NoneV)},
           {"ok"}, {"ok"}, {"ok"}, {RunArgs(NoneV, NoneV, FALSE, TRUE)}, {0, 1})

InitStore ==
    InitWith({1}, { Env("key", "tok", NoneV, NoneV, "poll"),
                    Env("key", "tok", NoneV, NoneV, "run") })

NextStore ==
    \/ Enqueue(StoreInputs, MaxStoreJobs)
    \/ \E t \in DOMAIN th : Worker(t, StoreInputs)

SpecStore == InitStore /\ [][NextStore]_vars

----------------------------------------------------------------------------
(* Specification SpecCrash: the worker process may die at any point and is *)
(* started again                                                           *)

MaxCrashJobs == 2

CrashInputs ==
    Inputs({Order("o1", ShipFull, NoAddr), Order("o4", EmptyAddr, NoAddr)},
           {Fetched("raise", NoOrder), Fetched("order", Order("o4", FetchedFull, NoAddr))},
           {Reply("bring_error", NoneV, NoneV, NoneV), Reply("ok", "T", NoneV, "U")},
           {"ok", "http_error"}, {"ok", "fulfill_error"}, {"ok"},
           {RunArgs(NoneV, NoneV, FALSE, TRUE)}, {0})

InitCrash ==
    InitWith({1}, { Env("key", "tok", NoneV, "true", "poll"),
                    Env("key", "tok", NoneV, NoneV, "run") })

NextCrash ==
    \/ Enqueue(CrashInputs, MaxCrashJobs)
    \/ \E t \in DOMAIN th : Worker(t, CrashInputs)
    \/ crashes < MaxCrashes /\ Crash

SpecCrash == InitCrash /\ [][NextCrash]_vars

----------------------------------------------------------------------------
(* Specification SpecAddr: one queued order with every combination of set, *)
(* empty and absent address fields, processed by one worker                 *)

AddrOrders ==
    { Order(id, Addr(a, c, z), Addr(ba, bc, bz)) :
        id \in {NoneV, "o4"},
        a \in {NoneV, "", "s1"}, c \in {NoneV, "", "sc"}, z \in {NoneV, "", "sz"},
        ba \in {NoneV, "b1"}, bc \in {NoneV, "bc"}, bz \in {NoneV, "bz"} }

AddrInputs ==
    Inputs(AddrOrders,
           {Fetched("raise", NoOrder), Fetched("no_order", NoOrder),
            Fetched("order", Order("o4", FetchedFull, NoAddr)),
            Fetched("order", Order("o4", NoAddr, BillFull)),
            Fetched("order", Order("o4", ShipPartial, BillFull))},
           {Reply("invalid", NoneV, NoneV, NoneV), Reply("bring_error", NoneV, NoneV, NoneV),
            Reply("ok", NoneV, NoneV, NoneV), Reply("ok", "T", NoneV, "U")},
           {"ok", "conn_error"}, {"ok"}, {"ok"},
           {RunArgs(NoneV, NoneV, FALSE, TRUE), RunArgs(NoneV, NoneV, TRUE, TRUE)}, {0})

AddrEnvs ==
    { Env("key", "tok", NoneV, NoneV, "poll"),
      Env("key", NoneV, NoneV, NoneV, "poll"),
      Env("key", "tok", NoneV, NoneV, "run"),
      Env(NoneV, "tok", NoneV, NoneV, "poll") }

\* the store holds one pending job that add_job wrote before the worker started
InitAddr ==
    /\ \E order \in AddrInputs.orders : jobs = add_job(<<>>, rows_to_job(order), 0, 0)
    /\ now = 0
    /\ th = [t \in {1} |-> ThreadInit]
    /\ run = [t \in {1} |-> RunInit]
    /\ DOWNLOADED_LABELS = <<>>
    /\ PROCESS_ERRORS = <<>>
    /\ startenv \in AddrEnvs
    /\ environ = startenv
    /\ UPDATE_SHOPIFY_FULFILL = ImportFlag(startenv)
    /\ files = << >>
    /\ carrier = <<0>>
    /\ crashes = 0
    /\ bring = BringInit
    /\ http = RequestInit
    /\ settings = NoSettings
    /\ inbox = InboxInit(NoneV)
    /\ csv = PickInit

NextAddr == \E t \in DOMAIN th : Worker(t, AddrInputs)

SpecAddr == InitAddr /\ [][NextAddr]_vars

----------------------------------------------------------------------------
(* Specification SpecParties: forward and return labels for customers and  *)
(* settings with and without contact details                               *)

MaxPartyJobs == 1

PartyOrders ==
    { WithContact(Order("o1", ShipFull, NoAddr), email, phone) :
        email \in {NoneV, "c@"}, phone \in {NoneV, "c-tel"} }

PartyInputs ==
    Inputs(PartyOrders, {Fetched("no_order", NoOrder)},
           {Reply("bring_error", NoneV, NoneV, NoneV), Reply("ok", "T", NoneV, NoneV)},
           {"ok"}, {"ok"}, {"ok"},
           {RunArgs(NoneV, NoneV, FALSE, TRUE), RunArgs(NoneV, NoneV, TRUE, TRUE)}, {0})

PartyEnvs ==
    { WithContacts(Env("key", "tok", NoneV, NoneV, "run"), se, sp, re, rp) :
        se \in {NoneV, "s@"}, sp \in {NoneV, "s-tel"},
        re \in {NoneV, "r@"}, rp \in {NoneV, "r-tel"} }

InitParties == InitWith({1}, PartyEnvs)

NextParties ==
    \/ Enqueue(PartyInputs, MaxPartyJobs)
    \/ \E t \in DOMAIN th : Worker(t, PartyInputs)

SpecParties == InitParties /\ [][NextParties]_vars

----------------------------------------------------------------------------
(* Specification SpecWeight: one queued order with every list of line      *)
(* items up to MaxItems, under several default weights                     *)

MaxItems == 2

WeightItems ==
    { LineItem(grams, quantity) :
        grams \in {<<>>, <<-100>>, <<250>>, <<500>>},
        quantity \in {<<>>, <<0>>, <<1>>, <<2>>} }

WeightOrders ==
    { WithItems(Order("o1", ShipFull, NoAddr), line_items) :
        line_items \in UNION { [1..n -> WeightItems] : n \in 0..MaxItems } }

WeightInputs ==
    Inputs(WeightOrders, {Fetched("no_order", NoOrder)},
           {Reply("bring_error", NoneV, NoneV, NoneV), Reply("ok", "T", "P1", "U")},
           {"ok", "http_error"}, {"ok"}, {"ok"}, {RunArgs(NoneV, NoneV, FALSE, TRUE)}, {0})

\* default weights of 1.1 kg, 1.1004 kg and 1.1006 kg
WeightEnvs ==
    { WithWeight(Env("key", NoneV, NoneV, NoneV, "poll"), w) : w \in {11000, 11004, 11006} }

\* the store holds one pending job that add_job wrote before the worker started
InitWeight ==
    /\ \E order \in WeightInputs.orders : jobs = add_job(<<>>, rows_to_job(order), 0, 0)
    /\ now = 0
    /\ th = [t \in {1} |-> ThreadInit]
    /\ run = [t \in {1} |-> RunInit]
    /\ DOWNLOADED_LABELS = <<>>
    /\ PROCESS_ERRORS = <<>>
    /\ startenv \in WeightEnvs
    /\ environ = startenv
    /\ UPDATE_SHOPIFY_FULFILL = ImportFlag(startenv)
    /\ files = << >>
    /\ carrier = <<0>>
    /\ crashes = 0
    /\ bring = BringInit
    /\ http = RequestInit
    /\ settings = NoSettings
    /\ inbox = InboxInit(NoneV)
    /\ csv = PickInit

NextWeight == \E t \in DOMAIN th : Worker(t, WeightInputs)

SpecWeight == InitWeight /\ [][NextWeight]_vars

----------------------------------------------------------------------------
(* Specification SpecBring: _validate_payload on payloads with up to       *)
(* MaxDefects defects, and book_consignment on orders and settings         *)

MaxDefects == 2

MaxPosts == 2

ValidParty == BringParty("n", "a", "p", "c", "NO")

ValidPayload ==
    BringPayload("5", <<1>>,
       << BringConsignment(ValidParty, ValidParty, "SERVICEPAKKE",
                           << BringPackage(<<500>>, DimensionKeys) >>) >>)

\* the ways a payload can be damaged: <<what, key, value>>
Defects ==
    { <<"customerNumber", "", v>> : v \in {"", NoneV} }
    \cup { <<"schemaVersion", "", v>> : v \in {"2", "absent"} }
    \cup { <<"consignments", "", v>> : v \in {"empty", "not a list"} }
    \cup { <<"parties", "", "absent">>, <<"product", "", "absent">>, <<"product", "", "empty">>,
           <<"packages", "", "absent">>, <<"packages", "", "empty">>,
           <<"weightInKg", "", "absent">>, <<"weightInKg", "", "zero">>,
           <<"weightInKg", "", "negative">>, <<"dimensions", "", "absent">> }
    \cup { <<"dimensions", k, "absent">> : k \in DimensionKeys }
    \cup { <<role, "", "absent">> : role \in {"sender", "recipient"} }
    \cup { <<role, PartyKeys[i], v>> :
             role \in {"sender", "recipient"}, i \in 1..Len(PartyKeys), v \in {"", NoneV} }

DamagedParty(party, d) ==
    IF d[2] = "" THEN AbsentParty ELSE [party EXCEPT ![d[2]] = d[3]]

DamagedPackage(pkg, d) ==
    CASE d[1] = "weightInKg" ->
            [pkg EXCEPT !.weightInKg = CASE d[3] = "absent" -> <<>>
                                         [] d[3] = "zero" -> <<0>>
                                         [] OTHER -> <<-500>>]
      [] d[1] = "dimensions" ->
            [pkg EXCEPT !.dimensions = IF d[2] = "" THEN {} ELSE @ \ {d[2]}]
      [] OTHER -> pkg

DamagedConsignment(cons, d) ==
    CASE d[1] = "parties"   -> [cons EXCEPT !.has_parties = FALSE]
      [] d[1] = "product"   -> IF d[3] = "absent" THEN [cons EXCEPT !.has_product = FALSE]
                               ELSE [cons EXCEPT !.product_id = ""]
      [] d[1] = "packages"  -> IF d[3] = "absent" THEN [cons EXCEPT !.has_packages = FALSE]
                               ELSE [cons EXCEPT !.packages = <<>>]
      [] d[1] = "sender"    -> [cons EXCEPT !.sender = DamagedParty(@, d)]
      [] d[1] = "recipient" -> [cons EXCEPT !.recipient = DamagedParty(@, d)]
      [] d[1] \in {"weightInKg", "dimensions"} ->
            IF cons.packages = <<>> THEN cons
            ELSE [cons EXCEPT !.packages = <<DamagedPackage(@[1], d)>>]
      [] OTHER -> cons

Damaged(payload, d) ==
    CASE d[1] = "customerNumber" -> [payload EXCEPT !.customerNumber = d[3]]
      [] d[1] = "schemaVersion"  ->
            [payload EXCEPT !.schemaVersion = IF d[3] = "2" THEN <<2>> ELSE <<>>]
      [] d[1] = "consignments"   ->
            IF d[3] = "empty" THEN [payload EXCEPT !.consignments = <<>>]
            ELSE [payload EXCEPT !.consignments_is_list = FALSE, !.consignments = <<>>]
      [] OTHER ->
            IF payload.consignments = <<>> THEN payload
            ELSE [payload EXCEPT !.consignments = <<DamagedConsignment(@[1], d)>>]

RECURSIVE DamagedPayloads(_)
DamagedPayloads(n) ==
    IF n = 0 THEN {ValidPayload}
    ELSE LET before == DamagedPayloads(n - 1)
         IN  before \cup { Damaged(payload, d) : payload \in before, d \in Defects }

BringOrders ==
    { BringOrder(name, ship, line_items) :
        name \in {"", "n"}, ship \in {NoAddr, ShipFull},
        line_items \in {<<>>, <<LineItem(<<250>>, <<2>>)>>} }

BringSettingsSet ==
    { BringSettings(customer_number, product, sender) :
        customer_number \in {"5", ""}, product \in {"SERVICEPAKKE", ""},
        sender \in {ValidParty, [ValidParty EXCEPT !.city = ""]} }

InitBring == InitWith({1}, {Env("key", "tok", NoneV, NoneV, "poll")})

NextBring ==
    \/ \E payload \in DamagedPayloads(MaxDefects) : ValidatePayload(payload)
    \/ \E order \in BringOrders, s \in BringSettingsSet, dry_run \in BOOLEAN :
          bring.posts < MaxPosts /\ BuildConsignment(order, s, dry_run)
    \/ \E status \in {"ok", "error", "raise"} : PostConsignment(status)
    \/ NextBringCall

SpecBring == InitBring /\ [][NextBring]_vars

----------------------------------------------------------------------------
(* Specification SpecWorkers: two workers of one process (two requests of  *)
(* the dashboard) against a store with one queued job                      *)

Workers == {1, 2}

WorkersInputs ==
    Inputs({Order("o1", ShipFull, NoAddr)}, {Fetched("no_order", NoOrder)},
           {Reply("bring_error", NoneV, NoneV, NoneV), Reply("ok", "T", NoneV, NoneV),
            Reply("ok", "T", "P1", "U")},
           {"ok"}, {"ok"}, {"ok"}, {RunArgs(NoneV, NoneV, FALSE, TRUE)}, {0})

InitWorkers ==
    /\ \E order \in WorkersInputs.orders : jobs = add_job(<<>>, rows_to_job(order), 0, 0)
    /\ now = 0
    /\ th = [t \in Workers |-> ThreadInit]
    /\ run = [t \in Workers |-> RunInit]
    /\ DOWNLOADED_LABELS = <<>>
    /\ PROCESS_ERRORS = <<>>
    /\ startenv \in { Env("key", "tok", NoneV, NoneV, "poll"),
                      Env("key", "tok", NoneV, NoneV, "run") }
    /\ environ = startenv
    /\ UPDATE_SHOPIFY_FULFILL = ImportFlag(startenv)
    /\ files = << >>
    /\ carrier = <<0>>
    /\ crashes = 0
    /\ bring = BringInit
    /\ http = RequestInit
    /\ settings = NoSettings
    /\ inbox = InboxInit(NoneV)
    /\ csv = PickInit

NextWorkers == \E t \in DOMAIN th : Worker(t, WorkersInputs)

SpecWorkers == InitWorkers /\ [][NextWorkers]_vars

----------------------------------------------------------------------------
(* Specification SpecRequest: calls of ShopifyClient._request with every   *)
(* sequence of answers of the server                                       *)

Responses ==
    { Response(0, NoneV), Response(200, NoneV), Response(404, NoneV) }
    \cup { Response(status, retry_after) :
             status \in {429, 503}, retry_after \in {NoneV, "", "3", "Wed, 21 Oct", "-1"} }

InitRequest == InitWith({1}, {Env("key", "tok", NoneV, NoneV, "poll")})

NextRequest ==
    \/ RequestCall
    \/ \E resp \in Responses : Attempt(resp)

SpecRequest == InitRequest /\ [][NextRequest]_vars

----------------------------------------------------------------------------
(* Specification SpecMerge: runs of process_all_pending_jobs over orders   *)
(* whose labels are downloaded, with every outcome of download and merge   *)

MaxMergeJobs == 2

MergeInputs ==
    Inputs({Order("o1", ShipFull, NoAddr)}, {Fetched("no_order", NoOrder)},
           {Reply("ok", "T", NoneV, NoneV), Reply("ok", "T", NoneV, "U"),
            Reply("ok", "T", "P1", "U")},
           {"ok", "http_error", "write_error"}, {"ok"}, MergeOutcomes,
           {RunArgs(NoneV, NoneV, FALSE, TRUE)}, {0})

InitMerge == InitWith({1}, {Env("key", "tok", NoneV, NoneV, "run")})

NextMerge ==
    \/ Enqueue(MergeInputs, MaxMergeJobs)
    \/ \E t \in DOMAIN th : Worker(t, MergeInputs)

SpecMerge == InitMerge /\ [][NextMerge]_vars

----------------------------------------------------------------------------
(* Specification SpecInbox: the ingress server with and without a token,   *)
(* beside the store, a CSV enqueuer and the worker                         *)

MaxRequests == 2

MaxInboxJobs == 1

InboxTokens == {NoneV, "", "s3cret"}

InboxAuthorizations == {NoneV, "Bearer s3cret", "Bearer other", "s3cret"}

InboxInputs ==
    Inputs({Order("o1", ShipFull, NoAddr)}, {Fetched("no_order", NoOrder)},
           {Reply("ok", "T", NoneV, NoneV)}, {"ok"}, {"ok"}, {"ok"},
           {RunArgs(NoneV, NoneV, FALSE, TRUE)}, {0})

InitInbox ==
    /\ jobs = <<>>
    /\ now = 0
    /\ th = [t \in {1} |-> ThreadInit]
    /\ run = [t \in {1} |-> RunInit]
    /\ DOWNLOADED_LABELS = <<>>
    /\ PROCESS_ERRORS = <<>>
    /\ startenv \in { Env("key", "tok", NoneV, NoneV, "poll"),
                      Env("key", "tok", NoneV, NoneV, "run") }
    /\ environ = startenv
    /\ UPDATE_SHOPIFY_FULFILL = ImportFlag(startenv)
    /\ files = << >>
    /\ carrier = <<>>
    /\ crashes = 0
    /\ bring = BringInit
    /\ http = RequestInit
    /\ settings = NoSettings
    /\ \E token \in InboxTokens : inbox = InboxInit(token)
    /\ csv = PickInit

NextInbox ==
    \/ \E order_number \in {"o1", "o2"}, valid \in BOOLEAN,
          authorization \in InboxAuthorizations :
          inbox.requests < MaxRequests /\ InboxRequest(order_number, valid, authorization)
    \/ ProcessOrder
    \/ Enqueue(InboxInputs, MaxInboxJobs)
    \/ \E t \in DOMAIN th : Worker(t, InboxInputs)

SpecInbox == InitInbox /\ [][NextInbox]_vars

----------------------------------------------------------------------------
(* Specification SpecCsv: pick_address on every group of up to MaxRows     *)
(* rows with set, empty and missing address columns                        *)

MaxRows == 3

\* no address (columns missing, cells empty), a street address only, a city
\* only (with and without the Street column), a zip only, a full address
ShippingColumns ==
    { Columns(NoneV, NoneV, NoneV, NoneV, NoneV, NoneV),
      Columns(NoneV, "", "st", "", "", ""),
      Columns(NoneV, "a1", NoneV, NoneV, "", NoneV),
      Columns(NoneV, "", "st", NoneV, "c1", ""),
      Columns(NoneV, NoneV, NoneV, NoneV, "c1", NoneV),
      Columns(NoneV, "", NoneV, "a2", "", "z1"),
      Columns("sn", "a1", "st", "a2", "c1", "z1") }

BillingColumns ==
    { Columns(NoneV, NoneV, NoneV, NoneV, NoneV, NoneV),
      Columns("bn", "b1", NoneV, "b2", "bc", "bz") }

RECURSIVE CsvGroups(_)
CsvGroups(n) ==
    IF n = 0 THEN {<<>>}
    ELSE { Append(rows, CsvRow(ToString(n), shipping, billing)) :
             rows \in CsvGroups(n - 1), shipping \in ShippingColumns,
             billing \in BillingColumns }

InitCsv == InitWith({1}, {Env("key", "tok", NoneV, NoneV, "poll")})

NextCsv ==
    \/ /\ csv.pc = "idle"
       /\ \E n \in 1..MaxRows, prefix \in {"Shipping", "Billing"} :
             \E rows \in CsvGroups(n) : PickAddress(rows, prefix)
    \/ NextPick

SpecCsv == InitCsv /\ [][NextCsv]_vars

----------------------------------------------------------------------------
(* Specification SpecRun: runs of process_all_pending_jobs by one thread;  *)
(* the enqueuer writes between the runs only; the thread keeps running     *)
(* and every call to a service returns                                     *)

MaxRunJobs == 2

RunInputs ==
    Inputs({Order("o1", ShipFull, NoAddr), Order("o2", NoAddr, NoAddr)},
           {Fetched("no_order", NoOrder)},
           {Reply("bring_error", NoneV, NoneV, NoneV), Reply("ok", "T", NoneV, NoneV),
            Reply("ok", "U", "P", <<"L">>), Reply("ok", NoneV, "P", <<"L">>)},
           {"ok", "http_error"}, {"ok", "no_line_items"}, {"ok"},
           {RunArgs(NoneV, NoneV, FALSE, TRUE), RunArgs("False", "True", FALSE, TRUE)}, {0})

InitRun == InitWith({1}, {Env("key", "tok", NoneV, NoneV, "run")})

\* no process_all_pending_jobs is running
NoRun == \A t \in DOMAIN run : run[t].phase = "none"

NextRun ==
    \/ NoRun /\ Enqueue(RunInputs, MaxRunJobs)
    \/ \E t \in DOMAIN th : Worker(t, RunInputs)

SpecRun ==
    InitRun /\ [][NextRun]_vars /\ WF_vars(\E t \in DOMAIN th : Worker(t, RunInputs))

----------------------------------------------------------------------------
(* Specification SpecOverlap: two threads of the dashboard process, each   *)
(* serving a /api/process request, so that two calls of                    *)
(* process_all_pending_jobs can overlap                                    *)

MaxOverlapJobs == 1

OverlapInputs ==
    Inputs({Order("o1", ShipFull, NoAddr)}, {Fetched("no_order", NoOrder)},
           {Reply("bring_error", NoneV, NoneV, NoneV), Reply("ok", "U", "P", <<"L">>)},
           {"ok"}, {"ok"}, {"ok"}, {RunArgs("False", "False", FALSE, TRUE)}, {0})

InitOverlap == InitWith(Workers, {Env("key", "tok", NoneV, NoneV, "run")})

NextOverlap ==
    \/ Enqueue(OverlapInputs, MaxOverlapJobs)
    \/ \E t \in DOMAIN th : Worker(t, OverlapInputs)

SpecOverlap == InitOverlap /\ [][NextOverlap]_vars

----------------------------------------------------------------------------
(* Claims *)

InFlight == {"claimed", "prepared", "booked", "labelled", "fulfilled"}

Terminal == {"done", "failed"}

JobIds == 1..Len(jobs)

\* C1: the worker receives the jobs in ascending id order, the order of
\* enqueuing: the job it holds is the pending row with the lowest id, every
\* row with a lower id has been finished before, and each job it receives
\* has a larger id than the one it received before.
C1_Fifo ==
    /\ [](\A t \in DOMAIN th :
            th[t].pc \in InFlight =>
               /\ th[t].job_id \in PendingIds(jobs)
               /\ \A k \in JobIds : k < th[t].job_id => jobs[k].status \in Terminal)
    /\ [][\A t \in DOMAIN th :
            (th[t].pc = "idle" /\ th'[t].pc = "claimed") =>
               /\ th'[t].job_id \in PendingIds(jobs)
               /\ \A k \in PendingIds(jobs) : th'[t].job_id <= k
               /\ th'[t].job_id > th[t].job_id]_vars

\* three jobs were enqueued before the first was finished, and the worker
\* holds the third after it finished the first two
C1_Witness ==
    /\ Len(jobs) = 3
    /\ th[1].pc = "claimed" /\ th[1].job_id = 3
    /\ jobs[1].status = "failed" /\ jobs[2].status = "done"
    /\ jobs[3].created_at <= jobs[2].updated_at

\* C2: get_next_job writes no row: the table is the same after the call,
\* the returned job is still pending, and as long as no status is updated
\* a second get_next_job returns the same id.
C2_GetNextJobReadsOnly ==
    /\ [][\A t \in DOMAIN th :
            (th[t].pc = "idle" /\ (th'[t].pc = "claimed" \/ th'[t].ret = "False")
               /\ th' # th)
            => jobs' = jobs]_vars
    /\ [](\A t \in DOMAIN th :
            th[t].pc \in InFlight =>
               /\ jobs[th[t].job_id].status = "pending"
               /\ get_next_job(jobs) = th[t].job_id)

\* the worker holds job 1 some time after it was written, a later job is
\* queued behind it, and the row still carries its first timestamps
C2_Witness ==
    /\ Len(jobs) >= 2
    /\ th[1].pc = "claimed" /\ th[1].job_id = 1
    /\ jobs[1].status = "pending"
    /\ jobs[1].updated_at < now

\* C3: a crash between get_next_job and update_status leaves the job
\* pending; the next process_next_job claims the same job and processes it
\* from the start, so its booking can reach the carrier more than once.
C3_CrashLeavesPending ==
    /\ [](\A t \in DOMAIN th :
            th[t].pc \in InFlight => jobs[th[t].job_id].status = "pending")
    /\ [][\A t \in DOMAIN th :
            (crashes' = crashes + 1 /\ th[t].pc \in InFlight) =>
               /\ th'[t] = ThreadInit
               /\ jobs'[th[t].job_id].status = "pending"
               /\ get_next_job(jobs') = th[t].job_id
               /\ carrier' = carrier]_vars
    /\ [][\A t \in DOMAIN th :
            (th[t].pc = "idle" /\ th'[t].pc = "claimed") =>
               th'[t] = [ThreadInit EXCEPT !.pc = "claimed", !.job_id = get_next_job(jobs)]]_vars

\* after a crash the job that was being processed has been booked a second
\* time
C3_Witness ==
    /\ crashes = 1
    /\ th[1].pc = "booked"
    /\ carrier[th[1].job_id] = 2
    /\ jobs[th[1].job_id].status = "pending"

\* C4: a job that is done or failed is inert: the worker never claims it
\* again, sends no booking for it and never changes its status.
C4_TerminalIsInert ==
    [][\A j \in JobIds :
         jobs[j].status \in Terminal =>
            /\ jobs'[j].status = jobs[j].status
            /\ carrier'[j] = carrier[j]
            /\ \A t \in DOMAIN th : th'[t].pc \in InFlight => th'[t].job_id # j]_vars

\* a later run found the failed job and the done job and claimed neither
C4_Witness ==
    /\ Len(jobs) = 2
    /\ jobs[1].status = "failed" /\ jobs[2].status = "done"
    /\ run[1].phase = "merge" /\ run[1].processed_jobs = 0
    /\ carrier[1] = 1 /\ carrier[2] = 1

\* C5: no error of a job leaves process_next_job: the job is marked failed,
\* the call returns True, and the loop of process_all_pending_jobs goes on.
C5_ErrorsAreCaught ==
    /\ [](\A t \in DOMAIN th : th[t].ret # "raised" /\ th[t].err # "raised")
    /\ [][\A t \in DOMAIN th :
            (th[t].pc \in InFlight /\ th'[t].pc = "idle") =>
               /\ th'[t].ret = "True"
               /\ jobs'[th[t].job_id].status \in Terminal
               /\ th'[t].err # "none" =>
                     /\ jobs'[th[t].job_id].status = "failed"
                     /\ Len(PROCESS_ERRORS') = Len(PROCESS_ERRORS) + 1
               /\ run[t].phase = "loop" =>
                     /\ run'[t].phase = "loop"
                     /\ run'[t].processed_jobs = run[t].processed_jobs + 1]_vars

\* in one run a job failed while its recipient was built, the next failed
\* at the booking, and the loop is still running
C5_Witness ==
    /\ run[1].phase = "loop" /\ run[1].processed_jobs = 2
    /\ Len(PROCESS_ERRORS) = 2
    /\ PROCESS_ERRORS[1].step = "recipient" /\ PROCESS_ERRORS[2].step = "booking"
    /\ jobs[1].status = "failed" /\ jobs[2].status = "failed"

\* C6: a job becomes done only after a booking that returned a tracking
\* number; a carrier failure or a result without tracking number ends failed.
C6_DoneNeedsTracking ==
    /\ [](\A t \in DOMAIN th :
            /\ th[t].pc \in {"booked", "labelled", "fulfilled"} =>
                  /\ th[t].result.kind = "ok"
                  /\ Truthy(th[t].result.tracking)
                  /\ carrier[th[t].job_id] >= 1
            /\ th[t].step \in {"payload", "booking", "parse", "tracking"} =>
                  jobs[th[t].job_id].status = "failed")
    /\ [][\A j \in JobIds :
            (jobs[j].status # "done" /\ jobs'[j].status = "done") =>
               \E t \in DOMAIN th : th[t].job_id = j /\ th[t].pc = "fulfilled"]_vars

\* the carrier answered with success but without a tracking number
C6_Witness ==
    /\ th[1].pc = "idle" /\ th[1].step = "tracking"
    /\ carrier[th[1].job_id] = 1
    /\ jobs[th[1].job_id].status = "failed"

\* C7: after a booking with tracking number a failed label download (non-OK
\* answer, connection error or timeout, failed write) leaves the job done.
C7_DownloadFailureKeepsDone ==
    \A t \in DOMAIN th :
       (th[t].pc = "idle" /\ th[t].dl \in {"http_error", "conn_error", "write_error"}) =>
          jobs[th[t].job_id].status = "done"

\* C8: a failed storefront fulfillment update leaves the job done and adds
\* no error.
C8_FulfillFailureKeepsDone ==
    /\ [](\A t \in DOMAIN th :
            th[t].ff \in FulfillOutcomes \ {"ok"} =>
               /\ th[t].err = "none"
               /\ th[t].pc = "idle" =>
                     (th[t].ret = "True" /\ jobs[th[t].job_id].status = "done")
               /\ \A i \in 1..Len(PROCESS_ERRORS) : PROCESS_ERRORS[i].step # "fulfill")
    /\ [][\A t \in DOMAIN th :
            (th[t].pc = "labelled" /\ th'[t].pc # "labelled") =>
               /\ th'[t].pc = "fulfilled"
               /\ PROCESS_ERRORS' = PROCESS_ERRORS
               /\ jobs' = jobs]_vars

\* the storefront returned no line item for the order and the job is done
C8_Witness ==
    /\ th[1].pc = "idle" /\ th[1].ff = "no_line_items"
    /\ jobs[th[1].job_id].status = "done"
    /\ PROCESS_ERRORS = <<>>

\* the order as it was queued for the job a thread holds or held last
QueuedOrder(t) == jobs[th[t].job_id].payload.order

Resolved == {"prepared", "booked", "labelled", "fulfilled"}
Submitted == {"booked", "labelled", "fulfilled"}

\* the party of the booking payload that carries the customer's address
Addressee(t) ==
    IF run[t].phase = "loop" /\ run[t].args.return_label
    THEN th[t].payload.sender ELSE th[t].payload.recipient

FromBilling(order) ==
    Recipient(order.billing_address.address1, order.billing_address.zip,
              order.billing_address.city)

Complete(a) == Truthy(a.address1) /\ Truthy(a.city) /\ Truthy(a.zip)
NoneSet(a) == ~Truthy(a.address1) /\ ~Truthy(a.city) /\ ~Truthy(a.zip)

\* C9 as stated: whenever at least one of address1, city, zip of the
\* shipping address is empty or absent and the billing address has all
\* three, the recipient is taken from the billing address and the job is
\* booked with it.
C9_BillingWhenShippingIncomplete ==
    \A t \in DOMAIN th :
       (/\ th[t].job_id # 0
        /\ ~Complete(QueuedOrder(t).shipping_address)
        /\ Complete(QueuedOrder(t).billing_address)) =>
          /\ th[t].pc \in Resolved => th[t].recipient = FromBilling(QueuedOrder(t))
          /\ th[t].pc \in Submitted => Addressee(t) = FromBilling(QueuedOrder(t))
          /\ th[t].pc = "idle" => th[t].step # "address"

\* C9 (amended): whenever none of address1, city, zip of the shipping
\* address is set and the billing address has all three, build_recipient
\* takes addressLine, city and postalCode from the billing address, no
\* re-fetch is made, and the job is booked with the billing-derived fields.
C9_BillingWhenShippingUnset ==
    /\ [](\A t \in DOMAIN th :
            (/\ th[t].job_id # 0
             /\ NoneSet(QueuedOrder(t).shipping_address)
             /\ Complete(QueuedOrder(t).billing_address)) =>
               /\ build_recipient(QueuedOrder(t)) = FromBilling(QueuedOrder(t))
               /\ th[t].refetches = 0
               /\ th[t].pc \in Resolved =>
                     /\ th[t].recipient = FromBilling(QueuedOrder(t))
                     /\ th[t].order = QueuedOrder(t)
               /\ th[t].pc \in Submitted =>
                     /\ Addressee(t) = FromBilling(QueuedOrder(t))
                     /\ carrier[th[t].job_id] = 1
               /\ th[t].pc = "idle" => th[t].step \notin {"recipient", "address"})
    /\ [][\A t \in DOMAIN th :
            (/\ th[t].pc = "claimed" /\ th'[t].pc # "claimed"
             /\ NoneSet(QueuedOrder(t).shipping_address)
             /\ Complete(QueuedOrder(t).billing_address)
             /\ BringClient_ok(environ)) => th'[t].pc = "prepared"]_vars

\* an order without shipping fields was booked to its billing address and
\* the job is about to end done
C9_Witness ==
    /\ th[1].pc = "fulfilled"
    /\ QueuedOrder(1).shipping_address = Addr(NoneV, "", NoneV)
    /\ QueuedOrder(1).billing_address = BillFull
    /\ Addressee(1) = Recipient("b1", "bz", "bc")
    /\ carrier[1] = 1

\* the recipient of the queued order is not usable and an order id is there
NeedsRefetch(t) ==
    /\ th[t].job_id # 0
    /\ ~has_min_recipient(build_recipient(QueuedOrder(t)))
    /\ Truthy(QueuedOrder(t).id)

\* the call got as far as the recipient of the queued order
PastRecipient(t) ==
    \/ th[t].pc \in Resolved
    \/ th[t].pc = "idle" /\ th[t].job_id # 0 /\ th[t].step \notin {"client", "recipient"}

\* C10 as stated: an unusable recipient with an order id gives exactly one
\* re-fetch; a usable re-fetched recipient gives exactly one booking with the
\* re-fetched order and a done job; the stored payload is not rewritten.
C10_RefetchOnceThenDone ==
    \A t \in DOMAIN th :
       (NeedsRefetch(t) /\ PastRecipient(t)) =>
          /\ th[t].refetches = 1
          /\ th[t].pc \in Submitted => Addressee(t) = build_recipient(th[t].order)
          /\ (th[t].pc = "idle" /\ th[t].step # "address") =>
                /\ th[t].bookings = 1
                /\ jobs[th[t].job_id].status = "done"

\* C10 (amended): when the storefront client could be constructed, an
\* unusable recipient with an order id gives exactly one re-fetch, otherwise
\* none; a usable re-fetched recipient gives at most one booking request,
\* made with the re-fetched order; the job ends done only after that booking
\* returned a tracking number; the stored payload is not rewritten.
C10_RefetchOnce ==
    /\ [](\A t \in DOMAIN th :
            /\ th[t].refetches =
                  IF NeedsRefetch(t) /\ PastRecipient(t) /\ ShopifyClient_ok(environ)
                  THEN 1 ELSE 0
            /\ (NeedsRefetch(t) /\ th[t].pc \in Resolved) =>
                  /\ th[t].order # QueuedOrder(t)
                  /\ th[t].recipient = build_recipient(th[t].order)
                  /\ has_min_recipient(th[t].recipient)
            /\ (NeedsRefetch(t) /\ th[t].pc \in Submitted) =>
                  /\ Addressee(t) = build_recipient(th[t].order)
                  /\ Truthy(th[t].result.tracking)
                  /\ th[t].bookings = 1
            /\ th[t].job_id # 0 =>
                  /\ carrier[th[t].job_id] = th[t].bookings
                  /\ th[t].bookings <= 1
                  /\ jobs[th[t].job_id].status = "done" => th[t].bookings = 1)
    /\ [][\A j \in JobIds :
            /\ jobs'[j].payload = jobs[j].payload
            /\ jobs'[j].order_id = jobs[j].order_id
            /\ (jobs[j].status # "done" /\ jobs'[j].status = "done") =>
                  \E t \in DOMAIN th :
                     th[t].job_id = j /\ th[t].pc = "fulfilled" /\ Truthy(th[t].result.tracking)]_vars

\* the queued order had no address, the storefront was asked once, the job
\* was booked once and is done, and the store still holds the queued order
C10_Witness ==
    /\ th[1].pc = "idle" /\ th[1].refetches = 1 /\ th[1].bookings = 1
    /\ carrier[1] = 1
    /\ jobs[1].status = "done"
    /\ jobs[1].payload.order.shipping_address = Addr(NoneV, NoneV, NoneV)
    /\ jobs[1].payload.order.billing_address = Addr(NoneV, NoneV, NoneV)

\* addressLine, city and postalCode are all there
Usable(recipient) ==
    Truthy(recipient.addressLine) /\ Truthy(recipient.city) /\ Truthy(recipient.postalCode)

\* C11: a recipient that is still not usable after the single re-fetch (or
\* without a re-fetch) fails the job with the missing-address error; no
\* booking request is made for it, the job is marked failed and it is not
\* claimed again in this or a later run.
C11_UnusableAddressFails ==
    /\ [](\A t \in DOMAIN th :
            /\ th[t].pc \in Resolved => Usable(th[t].recipient)
            /\ th[t].step = "address" =>
                  /\ th[t].pc = "idle" /\ th[t].ret = "True"
                  /\ th[t].refetches <= 1
                  /\ th[t].bookings = 0 /\ carrier[th[t].job_id] = 0
                  /\ jobs[th[t].job_id].status = "failed")
    /\ [][\A t \in DOMAIN th :
            (th[t].pc = "claimed" /\ th'[t].pc # "claimed" /\ BringClient_ok(environ)) =>
               /\ \/ th'[t].pc = "prepared"
                  \/ /\ th'[t].step = "address"
                     /\ PROCESS_ERRORS' = Append(PROCESS_ERRORS,
                            Msg("other", jobs[th[t].job_id].payload.id, "address"))
                     /\ jobs'[th[t].job_id].status = "failed"
                     /\ carrier' = carrier
               /\ (/\ ~Usable(build_recipient(QueuedOrder(t)))
                   /\ ~(ShopifyClient_ok(environ) /\ Truthy(QueuedOrder(t).id)))
                  => th'[t].step = "address"]_vars
    /\ [][\A j \in JobIds :
            (jobs[j].status = "failed" /\ carrier[j] = 0) =>
               /\ jobs'[j].status = "failed"
               /\ carrier'[j] = 0
               /\ \A t \in DOMAIN th : th'[t].pc \notin InFlight]_vars

\* the storefront was asked and gave no usable address; the job failed
\* without a booking, and a later run found nothing to claim
C11_Witness ==
    /\ jobs[1].status = "failed" /\ carrier[1] = 0
    /\ jobs[1].payload.order.id = "o4"
    /\ jobs[1].payload.order.shipping_address = Addr("s1", NoneV, "sz")
    /\ run[1].phase = "merge" /\ run[1].processed_jobs = 0
    /\ PROCESS_ERRORS = <<>>

\* the thread runs under process_all_pending_jobs(return_label=True)
ReturnRun(t) == run[t].phase = "loop" /\ run[t].args.return_label

\* the first of the values that is set
FirstSet(a, b, c) == IF Truthy(a) THEN a ELSE IF Truthy(b) THEN b ELSE c

Given(v, d) == IF v = <<>> THEN d ELSE v[1]

\* the sum of grams x quantity over the line items, a line item without
\* grams counting 0 grams and one without quantity counting once
RECURSIVE StatedGrams(_)
StatedGrams(line_items) ==
    IF line_items = <<>> THEN 0
    ELSE Given(Head(line_items).grams, 0) * Given(Head(line_items).quantity, 1)
         + StatedGrams(Tail(line_items))

\* the same sum with negative grams counted as 0 and a quantity below one
\* counted as one
RECURSIVE CountedGrams(_)
CountedGrams(line_items) ==
    IF line_items = <<>> THEN 0
    ELSE LET g == Given(Head(line_items).grams, 0)
             q == Given(Head(line_items).quantity, 1)
         IN  (IF g > 0 THEN g ELSE 0) * (IF q >= 1 THEN q ELSE 1)
             + CountedGrams(Tail(line_items))

Larger(a, b) == IF a > b THEN a ELSE b

\* a weight in tenths of a gram is a whole number of grams
WholeGrams(w) == w % 10 = 0

\* C13 as stated: the weight is the larger of the default weight and the
\* sum of grams x quantity, rounded to 3 decimals, and never below the
\* default weight.
C13_WeightIsMaxOfDefaultAndSum ==
    \A t \in DOMAIN th :
       th[t].pc \in Submitted =>
          LET w == th[t].payload.package.weightInKg
              d == startenv.BRING_WEIGHT_KG
              s == StatedGrams(QueuedOrder(t).line_items) * 10
          IN  /\ WholeGrams(w)
              /\ w - Larger(d, s) \in -5..5
              /\ w >= d

\* C13 (amended): the weight is the larger of the default weight and the
\* sum over the line items of max(0, grams) x max(1, quantity), a quantity
\* of 0 counting as 1, converted to kilograms and rounded to 3 decimals;
\* 500 g x 2 and 250 g x 1 under a default of 1.1 kg give 1.25 kg; the
\* result is never below the default weight rounded to 3 decimals.
C13_WeightIsMaxOfDefaultAndCounted ==
    \A t \in DOMAIN th :
       th[t].pc \in Submitted =>
          LET w == th[t].payload.package.weightInKg
              d == startenv.BRING_WEIGHT_KG
              s == CountedGrams(QueuedOrder(t).line_items) * 10
          IN  /\ WholeGrams(w)
              /\ w - Larger(d, s) \in -5..5
              /\ s >= d => w = s
              /\ d = 11000 => w >= d
              /\ w >= d - 5
              /\ (/\ QueuedOrder(t).line_items =
                        <<LineItem(<<500>>, <<2>>), LineItem(<<250>>, <<1>>)>>
                  /\ d = 11000) => w = 12500

\* the example of the claim: 1250 g against a default of 1.1 kg, booked
C13_Witness ==
    /\ th[1].pc = "booked"
    /\ QueuedOrder(1).line_items = <<LineItem(<<500>>, <<2>>), LineItem(<<250>>, <<1>>)>>
    /\ startenv.BRING_WEIGHT_KG = 11000
    /\ th[1].payload.package.weightInKg = 12500


\* the payload the call of the frame has checked
Checked == bring.payload # <<>>

\* the first package of the first consignment of a payload, <<>> if there is none
FirstPackage(payload) ==
    IF payload.consignments = <<>> THEN <<>>
    ELSE IF payload.consignments[1].packages = <<>> THEN <<>>
    ELSE payload.consignments[1].packages[1]

\* the party of the first consignment lacks one of the five fields
PartyLacks(payload, role) ==
    /\ payload.consignments # <<>>
    /\ \E i \in 1..Len(PartyKeys) : payload.consignments[1][role][PartyKeys[i]] \in {"", NoneV}

\* the payload violates one of the pre-flight conditions
Violates(payload) ==
    \/ payload.customerNumber \in {"", NoneV}
    \/ payload.schemaVersion # <<1>>
    \/ payload.consignments = <<>>
    \/ FirstPackage(payload) # <<>> /\ FirstPackage(payload).weightInKg = <<>>
    \/ FirstPackage(payload) # <<>> /\ FirstPackage(payload).weightInKg # <<>>
          /\ FirstPackage(payload).weightInKg[1] <= 0
    \/ FirstPackage(payload) # <<>> /\ DimensionKeys \ FirstPackage(payload).dimensions # {}
    \/ PartyLacks(payload, "sender")
    \/ PartyLacks(payload, "recipient")

\* C14: a payload that violates a pre-flight condition (empty customer number,
\* schemaVersion other than 1, no consignment, a weight not above 0, a missing
\* dimension, a sender or recipient lacking name, addressLine, postalCode, city
\* or countryCode) raises a validation error and no request is sent; in
\* book_consignment the POST is made only for a payload that passed validation
C14_InvalidPayloadIsNotPosted ==
    /\ [](Checked /\ Violates(bring.payload) => bring.ret = "ValueError" /\ bring.pc # "built")
    /\ [](bring.pc = "built" => Checked /\ ~Violates(bring.payload))
    /\ [][bring'.posts # bring.posts =>
             /\ bring.pc = "built" /\ bring.op = "book_consignment"
             /\ ~Violates(bring.payload)
             /\ bring'.posts = bring.posts + 1]_vars
    /\ [][bring'.ret = "ValueError" => bring'.posts = bring.posts]_vars

\* book_consignment has posted one booking, and a later validation of a payload
\* whose package weighs nothing has raised without another request
C14_Witness ==
    /\ bring.posts = 1
    /\ bring.ret = "ValueError"
    /\ bring.msg = "weightInKg must be > 0"
    /\ bring.pc = "returned"


\* the step returns from process_all_pending_jobs in thread t
RunReturns(t) == run[t].phase = "merge" /\ run'[t].phase = "none"

\* C15: a label file is deleted only after combine_pdfs has written the merged
\* file without error; when combining fails, no file is deleted and no label
\* file is changed
C15_DeleteOnlyAfterMerge ==
    /\ [][\A n \in DOMAIN files : n \notin DOMAIN files' =>
            \E t \in DOMAIN th :
               /\ RunReturns(t)
               /\ run'[t].merge = "ok"
               /\ \E i \in 1..Len(DOWNLOADED_LABELS) : DOWNLOADED_LABELS[i] = n
               /\ run'[t].summary.merged_label \in DOMAIN files'
               /\ files'[run'[t].summary.merged_label] = combine_pdfs(DOWNLOADED_LABELS, files)]_vars
    /\ [][\A t \in DOMAIN th : RunReturns(t) /\ run'[t].merge = "raised" =>
            \A n \in DOMAIN files :
               /\ n \in DOMAIN files'
               /\ n # run'[t].summary.merged_label => files'[n] = files[n]]_vars

\* two labels were downloaded, merged into a file of two pages, and deleted
C15_Witness ==
    /\ run[1].merge = "ok"
    /\ Len(DOWNLOADED_LABELS) = 2
    /\ DOWNLOADED_LABELS[1] # DOWNLOADED_LABELS[2]
    /\ \A i \in 1..2 : DOWNLOADED_LABELS[i] \notin DOMAIN files
    /\ run[1].summary.merged_label \in DOMAIN files
    /\ Len(files[run[1].summary.merged_label]) = 2

\* the pages of a file are those of different labels, in the order of the jobs
\* (the label of job j is the page j)
PagesInOrder(pages) == \A i, j \in 1..Len(pages) : i < j => pages[i] < pages[j]

\* C16: after a run that downloaded at least one label and merged them, the
\* only new file of the label directory is the merged file, it holds the pages
\* of every downloaded label in download order, and no label file of the run
\* remains; a run without labels writes no merged file
C16_OneMergedFile ==
    [][\A t \in DOMAIN th : RunReturns(t) =>
          LET merged_label == run'[t].summary.merged_label
          IN  /\ DOWNLOADED_LABELS = <<>> => merged_label = NoName /\ files' = files
              /\ DOWNLOADED_LABELS # <<>> /\ run'[t].merge = "ok" =>
                   /\ merged_label \in DOMAIN files'
                   /\ DOMAIN files' \ DOMAIN files \subseteq {merged_label}
                   /\ Len(files'[merged_label]) = Len(DOWNLOADED_LABELS)
                   /\ PagesInOrder(files'[merged_label])
                   /\ \A i \in 1..Len(DOWNLOADED_LABELS) :
                         DOWNLOADED_LABELS[i] \notin DOMAIN files']_vars


\* the step in which worker t receives a job from get_next_job
Receives(t) == th[t].pc = "idle" /\ th'[t].pc = "claimed"

\* worker t has sent the booking of job j to the carrier and holds the reply
HasBooked(t, j) == th[t].job_id = j /\ th[t].pc = "booked" /\ th[t].bookings = 1

\* C17: the store gives no mutual exclusion: when a worker receives a job from
\* get_next_job the store is left as it was, so another worker that calls
\* get_next_job next receives the same job id, also while the first worker is
\* processing that job; the booking of a job does not look at what another
\* worker holds
C17_NoMutualExclusion ==
    /\ [][\A t \in DOMAIN th : Receives(t) =>
            /\ jobs' = jobs
            /\ get_next_job(jobs') = th'[t].job_id]_vars
    /\ [](\A t \in DOMAIN th :
            th[t].pc \in InFlight /\ jobs[th[t].job_id].status = "pending"
               => get_next_job(jobs) = th[t].job_id)

\* both workers have received job 1 and both have booked it
C17_Witness ==
    /\ HasBooked(1, 1)
    /\ HasBooked(2, 1)
    /\ carrier[1] = 2
    /\ jobs[1].status = "pending"


\* the step is a call of add_job (the carrier's list has one entry per call)
AddJobStep == Len(carrier') = Len(carrier) + 1

\* C18: add_job does not deduplicate: every call adds exactly one row, pending,
\* also when a row with the same order id exists, and changes no existing
\* row; the rows of one order are claimed and processed each in its turn
C18_NoDeduplication ==
    /\ [][AddJobStep =>
            /\ Len(jobs') = Len(jobs) + 1
            /\ jobs'[Len(jobs')].status = "pending"
            /\ \A i \in 1..Len(jobs) : jobs'[i] = jobs[i]]_vars
    /\ [](\A i \in 1..Len(jobs) :
            jobs[i].status = "pending" /\ (\A k \in 1..(i - 1) : jobs[k].status # "pending")
               => get_next_job(jobs) = i)

\* two rows of the same order, both booked and done
C18_Witness ==
    /\ Len(jobs) >= 2
    /\ jobs[1].order_id = jobs[2].order_id
    /\ jobs[1].status = "done" /\ jobs[2].status = "done"
    /\ carrier[1] = 1 /\ carrier[2] = 1

\* C19: no step deletes a row: every row stays at its id with its order_id,
\* payload and created_at, and a new row gets the id after the largest one
C19_RowsStay ==
    [][/\ Len(jobs') >= Len(jobs)
       /\ \A i \in 1..Len(jobs) :
             /\ jobs'[i].order_id = jobs[i].order_id
             /\ jobs'[i].payload = jobs[i].payload
             /\ jobs'[i].created_at = jobs[i].created_at
       /\ Len(jobs') > Len(jobs) => (1..Len(jobs')) \ JobIds = {Len(jobs) + 1}]_vars

\* the first row was processed after the clock moved on, and rows came after it
C19_Witness ==
    /\ Len(jobs) = 3
    /\ jobs[1].status \in Terminal
    /\ jobs[1].created_at = 0
    /\ jobs[1].updated_at = 1
    /\ jobs[3].status = "pending"


\* the answer calls for a retry: a connection error or one of the five statuses
Retried(resp) == resp.status = 0 \/ resp.status \in RetryStatuses

\* the header is there and is a number
Numeric(text) == text \in {"3", "-1"}

\* the wait after the i-th answer of the call
Waits(i) ==
    IF http.seen[i].status # 0 /\ Numeric(http.seen[i].retry_after)
    THEN float_of(http.seen[i].retry_after)[1]
    ELSE BACKOFF_BASE * pow2(i - 1)

\* the answer that ended the call
LastSeen == http.seen[Len(http.seen)]

\* C20: one call of _request makes at most MAX_RETRIES attempts; every answer
\* but the last is a connection error or a 429/500/502/503/504; the call
\* returns the body of the first successful answer, raises at once on another
\* non-OK status and raises after the fifth failed attempt, and in no other
\* case; after the i-th failed attempt it waits the numeric Retry-After of the
\* answer, otherwise BACKOFF_BASE * 2^(i-1)
C20_BoundedRetry ==
    /\ http.requests = Len(http.seen)
    /\ http.requests <= MAX_RETRIES
    /\ \A i \in 1..(Len(http.seen) - 1) : Retried(http.seen[i])
    /\ http.pc = "attempt" => /\ http.ret = "none"
                              /\ http.attempt = Len(http.seen) + 1
                              /\ Len(http.slept) = Len(http.seen)
                              /\ \A i \in 1..Len(http.seen) : Retried(http.seen[i])
    /\ http.pc = "returned" =>
          /\ Len(http.seen) >= 1
          /\ Len(http.slept) = Len(http.seen) - 1
          /\ \/ ok(LastSeen) /\ http.ret = "body"
             \/ ~ok(LastSeen) /\ ~Retried(LastSeen) /\ http.ret = "HTTPError"
             \/ Retried(LastSeen) /\ Len(http.seen) = MAX_RETRIES
                   /\ http.ret \in {"RequestException", "HTTPError"}
    /\ \A i \in 1..Len(http.slept) : http.slept[i] = Waits(i)


\* the step answers a request to /inbox/email-order
Answers == inbox'.requests = inbox.requests + 1

\* C21: the order of every accepted request is enqueued: once its background
\* processing has run, the job store holds a job of that order
C21_AcceptedIsEnqueued ==
    \A i \in 1..Len(inbox.processed) :
       \E id \in JobIds : jobs[id].order_id = inbox.processed[i]

\* C22: with a token configured, a request whose Authorization header is
\* absent or is not "Bearer <token>" is answered 401 and schedules no
\* background processing; without a token every request is accepted
C22_TokenGuardsInbox ==
    [][Answers =>
         /\ Truthy(inbox.token) /\ inbox'.last.authorization # Bearer(inbox.token)
               => inbox'.last.status = 401 /\ inbox'.tasks = inbox.tasks
         /\ ~Truthy(inbox.token)
               => /\ inbox'.last.status = 200
                  /\ inbox'.tasks = Append(inbox.tasks, inbox'.last.order_number)]_vars

\* C22, for requests whose body fits the payload model: a body that does not
\* fit is answered 422 whatever the token and the header, and schedules
\* nothing either
C22_TokenGuardsValidRequests ==
    [][Answers =>
         /\ Truthy(inbox.token) /\ inbox'.last.authorization # Bearer(inbox.token)
               => /\ inbox'.last.status = IF inbox'.last.valid THEN 401 ELSE 422
                  /\ inbox'.tasks = inbox.tasks
         /\ ~Truthy(inbox.token) /\ inbox'.last.valid
               => /\ inbox'.last.status = 200
                  /\ inbox'.tasks = Append(inbox.tasks, inbox'.last.order_number)
         /\ ~inbox'.last.valid
               => inbox'.last.status = 422 /\ inbox'.tasks = inbox.tasks]_vars

\* a request without header was turned down after one with the right header
\* was accepted and scheduled
C22_Witness ==
    /\ inbox.token = "s3cret"
    /\ inbox.requests = 2
    /\ inbox.last.valid
    /\ inbox.last.authorization = NoneV
    /\ inbox.last.status = 401
    /\ Len(inbox.tasks) + Len(inbox.processed) = 1


\* the rows of the group that have an address for the prefix of the call
Qualifying == { i \in 1..Len(csv.rows) : has_address(csv.rows[i], csv.prefix) }

\* the first of them in file order
FirstQualifying == CHOOSE i \in Qualifying : \A k \in Qualifying : i <= k

\* C23: pick_address returns the address of the first row, in file order,
\* whose Address1, City or Zip column of the prefix is not empty; when no row
\* has one it returns an address with address1, address2, city and zip empty
C23_FirstRowWithAddress ==
    csv.pc = "returned" =>
       IF Qualifying # {}
       THEN LET c == csv.rows[FirstQualifying][csv.prefix]
            IN  /\ csv.ret.name = Or(c.Name, csv.rows[FirstQualifying].Name)
                /\ csv.ret.address1 = Or(c.Address1, c.Street)
                /\ csv.ret.city = Or(c.City, "")
                /\ csv.ret.zip = Or(c.Zip, "")
       ELSE /\ csv.ret.address1 = "" /\ csv.ret.address2 = ""
            /\ csv.ret.city = "" /\ csv.ret.zip = ""

\* the first row has no shipping address, the second has a city only
C23_Witness ==
    /\ csv.pc = "returned"
    /\ csv.prefix = "Shipping"
    /\ Len(csv.rows) = 2
    /\ Qualifying = {2}
    /\ csv.ret.name = "2"
    /\ csv.ret.city = "c1"
    /\ csv.ret.address1 = NoneV


\* no row of the store is pending
NoPending == \A i \in JobIds : jobs[i].status # "pending"

\* the step in which process_next_job of worker t calls get_next_job on a
\* store without a pending job
CallsOnEmpty(t) ==
    /\ th[t].pc = "idle"
    /\ NoPending
    /\ \/ run[t].phase = "loop" /\ run'[t].phase # "loop"
       \/ run[t].phase = "none" /\ run'[t].phase = "none" /\ th'[t] # th[t]

\* C24: on a store without a pending job get_next_job returns None and
\* process_next_job returns False, every time; the store, the carrier and the
\* label files are left as they were.
C24_EmptyStoreReturnsFalse ==
    /\ [](NoPending => get_next_job(jobs) = 0)
    /\ [][\A t \in DOMAIN th : CallsOnEmpty(t) =>
            /\ th'[t].pc = "idle"
            /\ th'[t].ret = "False"
            /\ jobs' = jobs
            /\ carrier' = carrier
            /\ files' = files
            /\ PROCESS_ERRORS' = PROCESS_ERRORS]_vars

\* both jobs of the store are finished and the loop of a run has ended with
\* the call that found nothing
C24_Witness ==
    /\ Len(jobs) = 2
    /\ jobs[1].status = "failed" /\ jobs[2].status = "done"
    /\ NoPending
    /\ th[1].pc = "idle" /\ th[1].ret = "False"
    /\ run[1].phase = "merge"
    /\ run[1].processed_jobs = 2


\* the number of pending rows of a table
Pending(js) == Cardinality({ i \in 1..Len(js) : js[i].status = "pending" })

\* thread t is inside process_all_pending_jobs
Running(t) == run[t].phase \in {"loop", "merge"}

\* C25: without a concurrent enqueuer process_all_pending_jobs terminates:
\* each iteration of its loop moves exactly one job from pending to done or
\* failed, the loop stops at the first call that finds no pending job, and on
\* return no job is pending and processed_jobs is the number of jobs that
\* were pending at the start.
C25_RunTerminates ==
    /\ (run[1].phase = "loop") ~> (run[1].phase = "none" /\ run[1].summary.valid)
    /\ [][\A t \in DOMAIN th :
            /\ (run[t].phase = "loop" /\ th[t].pc \in InFlight /\ th'[t].pc = "idle") =>
                  /\ run'[t].phase = "loop"
                  /\ jobs[th[t].job_id].status = "pending"
                  /\ jobs'[th[t].job_id].status \in Terminal
                  /\ \A j \in JobIds \ {th[t].job_id} : jobs'[j] = jobs[j]
                  /\ run'[t].processed_jobs = run[t].processed_jobs + 1
            /\ (run[t].phase = "loop" /\ ~(th[t].pc \in InFlight /\ th'[t].pc = "idle")) =>
                  /\ jobs' = jobs
                  /\ run'[t].processed_jobs = run[t].processed_jobs
            /\ (run[t].phase = "loop" /\ run'[t].phase # "loop") =>
                  /\ th[t].pc = "idle" /\ NoPending
                  /\ run'[t].phase = "merge"
            /\ (run[t].phase = "loop" /\ th[t].pc = "idle" /\ ~NoPending /\ th'[t] # th[t]) =>
                  th'[t].pc = "claimed"
            /\ (run[t].phase = "none" /\ run'[t].phase # "none") =>
                  /\ run'[t].phase = "loop"
                  /\ run'[t].processed_jobs = 0
            /\ (Running(t) /\ Running(t)') =>
                  run'[t].processed_jobs + Pending(jobs') = run[t].processed_jobs + Pending(jobs)
            /\ (Running(t) /\ ~Running(t)') =>
                  /\ NoPending'
                  /\ run'[t].summary.valid
                  /\ run'[t].summary.processed_jobs = run[t].processed_jobs]_vars

\* a run that found two pending jobs has returned: one job is done, one has
\* failed, and the summary counts both
C25_Witness ==
    /\ run[1].phase = "none"
    /\ run[1].summary.valid
    /\ run[1].summary.processed_jobs = 2
    /\ Len(jobs) = 2
    /\ jobs[1].status = "done" /\ jobs[2].status = "failed"
    /\ carrier[1] = 1 /\ carrier[2] = 0


\* the step in which worker t sends a booking of job j to the carrier
Books(t, j) == th[t].job_id = j /\ carrier'[j] = carrier[j] + 1

\* the step in which worker t attempts the label download or the
\* fulfillment update
Attempts(t) ==
    \/ th[t].dl = "none" /\ th'[t].dl \notin {"none", "no_url"}
    \/ th[t].ff = "none" /\ th'[t].ff \notin {"none", "skipped"}

\* C26: within one processing of a job the booking is submitted at most
\* once; after a failure of the carrier there is no second booking and the job
\* is marked failed; the label download and the fulfillment update are
\* attempted only after the booking has returned a tracking number.
C26_OneBookingThenLabel ==
    /\ [](\A t \in DOMAIN th : th[t].bookings <= 1)
    /\ [](\A j \in JobIds : carrier[j] <= 1)
    /\ [][\A j \in JobIds :
            carrier'[j] # carrier[j] =>
               \E t \in DOMAIN th :
                  Books(t, j) /\ th[t].pc = "prepared" /\ th'[t].pc # "prepared"
                     /\ th[t].bookings = 0 /\ th'[t].bookings = 1]_vars
    /\ [][\A t \in DOMAIN th :
            (th[t].pc = "prepared" /\ th'[t].pc = "idle" /\ th'[t].step = "booking") =>
               /\ carrier'[th[t].job_id] = carrier[th[t].job_id] + 1
               /\ jobs'[th[t].job_id].status = "failed"
               /\ th'[t].dl = "none" /\ th'[t].ff = "none"]_vars
    /\ [][\A t \in DOMAIN th :
            Attempts(t) =>
               /\ th[t].pc \in {"booked", "labelled"}
               /\ th[t].bookings = 1
               /\ carrier[th[t].job_id] = 1
               /\ th[t].result.kind = "ok"
               /\ Truthy(th[t].result.tracking)]_vars
    /\ [][(files' # files \/ DOWNLOADED_LABELS' # DOWNLOADED_LABELS) =>
            \E t \in DOMAIN th :
               \/ run[t].phase # run'[t].phase
               \/ th[t].pc = "booked" /\ Truthy(th[t].result.tracking)]_vars

\* the carrier refused the booking of job 1: it was sent once and the job
\* has failed; job 2 was booked once, its label was downloaded and its
\* fulfillment update was attempted
C26_Witness ==
    /\ Len(jobs) = 2
    /\ jobs[1].status = "failed" /\ carrier[1] = 1
    /\ Len(PROCESS_ERRORS) = 1 /\ PROCESS_ERRORS[1].step = "booking"
    /\ th[1].job_id = 2 /\ th[1].pc = "fulfilled"
    /\ th[1].bookings = 1 /\ carrier[2] = 1
    /\ th[1].dl = "ok" /\ th[1].ff = "no_line_items"
    /\ Truthy(th[1].result.tracking)


\* the step is one of thread t
StepOf(t) == th'[t] # th[t] \/ run'[t] # run[t]

\* the step in which thread t marks job j failed
MarksFailed(t, j) ==
    /\ th[t].job_id = j /\ th[t].pc \in InFlight /\ th'[t].pc = "idle"
    /\ jobs[j].status = "pending" /\ jobs'[j].status = "failed"

\* C27: the errors of a run are one message per job the run marked failed,
\* in processing order: the list is empty when the run starts, a job that the
\* run marks failed adds its message at the end, nothing else changes the list
\* while the run lasts, and the run returns the list.
C27_ErrorsOfTheRun ==
    [][\A t \in DOMAIN th :
         /\ (~Running(t) /\ Running(t)') => PROCESS_ERRORS' = <<>>
         /\ (Running(t) /\ Running(t)') =>
               IF \E j \in JobIds : MarksFailed(t, j)
               THEN /\ Len(PROCESS_ERRORS') = Len(PROCESS_ERRORS) + 1
                    /\ SubSeq(PROCESS_ERRORS', 1, Len(PROCESS_ERRORS)) = PROCESS_ERRORS
                    /\ PROCESS_ERRORS'[Len(PROCESS_ERRORS')].id = jobs[th[t].job_id].payload.id
               ELSE PROCESS_ERRORS' = PROCESS_ERRORS
         /\ (Running(t) /\ ~Running(t)') =>
               /\ run'[t].summary.valid
               /\ run'[t].summary.errors = PROCESS_ERRORS]_vars


\* C28: a run of process_all_pending_jobs owns the list of downloaded
\* labels: the list is empty when the run starts, only the downloads of the
\* run change it while the run lasts, and the run merges and reports the list;
\* also when two runs overlap in one process.
C28_RunOwnsLabels ==
    [][\A t \in DOMAIN th :
         /\ (~Running(t) /\ Running(t)') => DOWNLOADED_LABELS' = <<>>
         /\ (Running(t) /\ Running(t)' /\ DOWNLOADED_LABELS' # DOWNLOADED_LABELS) =>
               /\ StepOf(t)
               /\ th[t].pc = "booked" /\ th'[t].dl = "ok"
               /\ Len(DOWNLOADED_LABELS') = Len(DOWNLOADED_LABELS) + 1
               /\ SubSeq(DOWNLOADED_LABELS', 1, Len(DOWNLOADED_LABELS)) = DOWNLOADED_LABELS
         /\ (Running(t) /\ ~Running(t)') =>
               /\ run'[t].summary.downloaded_labels = DOWNLOADED_LABELS
               /\ run'[t].merge = "ok" =>
                     files'[run'[t].summary.merged_label] = combine_pdfs(DOWNLOADED_LABELS, files)]_vars


\* the document a merge of the labels downloaded so far would give
MergedNow == combine_pdfs(DOWNLOADED_LABELS, files)

\* the step in which the label download of thread t succeeds
Downloads(t) == th[t].pc = "booked" /\ th'[t].dl = "ok"

\* C29: within one run the label of every job whose download succeeded is
\* once in the merged document: a successful download adds the label of its
\* job behind those downloaded before, no other step of the run changes them,
\* and the merge writes them; also when two jobs have the same label file name.
C29_EveryLabelOnce ==
    [][\A t \in DOMAIN th :
         /\ (Running(t) /\ Running(t)') =>
               IF Downloads(t) THEN MergedNow' = Append(MergedNow, th[t].job_id)
               ELSE MergedNow' = MergedNow
         /\ (RunReturns(t) /\ run'[t].merge = "ok") =>
               /\ files'[run'[t].summary.merged_label] = MergedNow
               /\ \A j \in JobIds :
                     Cardinality({ i \in 1..Len(MergedNow) : MergedNow[i] = j }) <= 1]_vars


\* thread t has built the carrier client for the job it holds
HasClient(t) == th[t].pc \in {"prepared", "booked", "labelled", "fulfilled"}

\* C30: in every call of process_all_pending_jobs with a test_indicator
\* argument, the carrier client of the call's jobs carries that test flag, in
\* its header and in the booking payload, whatever earlier calls of the
\* process were given; when the call returns, BRING_TEST_INDICATOR,
\* SHOPIFY_UPDATE_FULFILL and UPDATE_SHOPIFY_FULFILL are as before the call.
C30_TestIndicatorDecides ==
    /\ [](\A t \in DOMAIN th :
            (run[t].phase = "loop" /\ run[t].args.test_indicator # NoneV) =>
               /\ HasClient(t) => th[t].test_header = (run[t].args.test_indicator = "True")
               /\ th[t].pc \in {"booked", "labelled", "fulfilled"} =>
                     th[t].payload.testIndicator = (run[t].args.test_indicator = "True"))
    /\ [][\A t \in DOMAIN th : RunReturns(t) =>
            /\ environ'.BRING_TEST_INDICATOR = run[t].original_test_indicator
            /\ environ'.SHOPIFY_UPDATE_FULFILL = run[t].original_fulfill
            /\ UPDATE_SHOPIFY_FULFILL' = run[t].original_flag
            /\ environ' = startenv]_vars

====
